---------------------------- MODULE Spec2Model ----------------------------
(***************************************************************************)
(* A model of spandsp's T.42 (ITULab JPEG for FAX) support, t42.c:         *)
(*   - the Lab parameter store (illuminant and gamut setters),             *)
(*   - the G3FAX marker scan isITUfax,                                     *)
(*   - the five bridging operations t42_itulab_to_jpeg, t42_jpeg_to_itulab,*)
(*     t42_srgb_to_itulab, t42_itulab_to_itulab and t42_itulab_to_srgb,    *)
(*     step by step, with the IJG codec as an environment whose calls      *)
(*     either succeed or report a fatal condition through the installed    *)
(*     error callback,                                                     *)
(*   - two such operations running in two threads over the one static      *)
(*     error_handler,                                                      *)
(*   - the quantiser lab_to_itu / itu_to_lab and the colour transforms     *)
(*     srgb_to_lab / lab_to_srgb on one pixel.                             *)
(*                                                                         *)
(* Conventions.  A C float is modelled by the exact rational [n, d] it     *)
(* would hold without rounding (d = 0 stands for the IEEE infinities and   *)
(* NaN).  A byte is an integer 0..255, a byte array a sequence of bytes,   *)
(* a C string a TLA+ string.  A read past the end of a marker's data is a  *)
(* read of the bytes that lie behind it in memory (field "after"), which   *)
(* the initial state chooses.                                              *)
(***************************************************************************)
EXTENDS Integers, Sequences, FiniteSets, TLC

(***************************************************************************)
(* Bounds of the model                                                     *)
(***************************************************************************)
MaxChain == 2     \* longest marker chain handed to the marker scan
MaxWidth == 2     \* widest image, in pixels
MaxHeight == 2    \* tallest image, in scanlines

(***************************************************************************)
(* Small helpers                                                           *)
(***************************************************************************)
Min(a, b) == IF a < b THEN a ELSE b

Abs(a) == IF a < 0 THEN -a ELSE a

RECURSIVE GCD(_, _)
GCD(a, b) == IF b = 0 THEN a ELSE GCD(b, a % b)

\* The rational n/d in lowest terms with a positive denominator; n/0 is kept
\* as the sign of n over 0 (+inf, -inf, NaN), as IEEE float division does.
Rat(n, d) ==
    IF d = 0 THEN [n |-> IF n > 0 THEN 1 ELSE IF n < 0 THEN -1 ELSE 0, d |-> 0]
    ELSE LET g == GCD(Abs(n), Abs(d))
             sg == IF d < 0 THEN -1 ELSE 1
         IN [n |-> sg * (n \div g), d |-> Abs(d) \div g]

RInt(k) == Rat(k, 1)

RDiv(x, y) == Rat(x.n * y.d, x.d * y.n)

RGreater(x, y) == x.n * y.d > y.n * x.d

RLess(x, y) == x.n * y.d < y.n * x.d

RAdd(x, y) == Rat(x.n * y.d + y.n * x.d, x.d * y.d)

RSub(x, y) == Rat(x.n * y.d - y.n * x.d, x.d * y.d)

RMul(x, y) == Rat(x.n * y.n, x.d * y.d)

\* floorf of a finite value: the largest integer not above n/d (d > 0)
RFloor(x) == x.n \div x.d

(***************************************************************************)
(* Program constants                                                       *)
(***************************************************************************)
JPEG_APP0 == 224          \* 0xE0, the first application marker class

G3FAX == <<71, 51, 70, 65, 88>>        \* "G3FAX"

\* static const illuminant_t illuminants[]: tag[5] (a 4 character literal
\* and its terminating NUL, "" being five zero bytes), name, xn, yn, zn in
\* thousandths.  The last entry, with the empty name, ends the table.
illuminants ==
    << [tag |-> <<0, 68, 53, 48, 0>>, name |-> "CIE D50/2",  xn |-> 96422,  yn |-> 100000, zn |-> 82521],
       [tag |-> <<0, 0, 0, 0, 0>>,    name |-> "CIE D50/10", xn |-> 96720,  yn |-> 100000, zn |-> 81427],
       [tag |-> <<0, 0, 0, 0, 0>>,    name |-> "CIE D55/2",  xn |-> 95682,  yn |-> 100000, zn |-> 92149],
       [tag |-> <<0, 0, 0, 0, 0>>,    name |-> "CIE D55/10", xn |-> 95799,  yn |-> 100000, zn |-> 90926],
       [tag |-> <<0, 68, 54, 53, 0>>, name |-> "CIE D65/2",  xn |-> 95047,  yn |-> 100000, zn |-> 108883],
       [tag |-> <<0, 0, 0, 0, 0>>,    name |-> "CIE D65/10", xn |-> 94811,  yn |-> 100000, zn |-> 107304],
       [tag |-> <<0, 68, 55, 53, 0>>, name |-> "CIE D75/2",  xn |-> 94972,  yn |-> 100000, zn |-> 122638],
       [tag |-> <<0, 0, 0, 0, 0>>,    name |-> "CIE D75/10", xn |-> 94416,  yn |-> 100000, zn |-> 120641],
       [tag |-> <<0, 0, 70, 50, 0>>,  name |-> "F02/2",      xn |-> 99186,  yn |-> 100000, zn |-> 67393],
       [tag |-> <<0, 0, 0, 0, 0>>,    name |-> "F02/10",     xn |-> 103279, yn |-> 100000, zn |-> 69027],
       [tag |-> <<0, 0, 70, 55, 0>>,  name |-> "F07/2",      xn |-> 95041,  yn |-> 100000, zn |-> 108747],
       [tag |-> <<0, 0, 0, 0, 0>>,    name |-> "F07/10",     xn |-> 95792,  yn |-> 100000, zn |-> 107686],
       [tag |-> <<0, 70, 49, 49, 0>>, name |-> "F11/2",      xn |-> 100962, yn |-> 100000, zn |-> 64350],
       [tag |-> <<0, 0, 0, 0, 0>>,    name |-> "F11/10",     xn |-> 103863, yn |-> 100000, zn |-> 65607],
       [tag |-> <<0, 0, 83, 65, 0>>,  name |-> "A/2",        xn |-> 109850, yn |-> 100000, zn |-> 35585],
       [tag |-> <<0, 0, 0, 0, 0>>,    name |-> "A/10",       xn |-> 111144, yn |-> 100000, zn |-> 35200],
       [tag |-> <<0, 0, 83, 67, 0>>,  name |-> "C/2",        xn |-> 98074,  yn |-> 100000, zn |-> 118232],
       [tag |-> <<0, 0, 0, 0, 0>>,    name |-> "C/10",       xn |-> 97285,  yn |-> 100000, zn |-> 116145],
       [tag |-> <<0, 0, 0, 0, 0>>,    name |-> "",           xn |-> 0,      yn |-> 0,      zn |-> 0] >>

(***************************************************************************)
(* Byte packing                                                            *)
(***************************************************************************)
\* pack_16: ((uint16_t) s[0] << 8) | s[1]
pack_16(s0, s1) == (s0 * 256 + s1) % 65536

\* unpack_16: s[0] = (value >> 8) & 0xFF;  s[1] = value & 0xFF
unpack_16(value) == << (value \div 256) % 256, value % 256 >>

(***************************************************************************)
(* The Lab parameter store                                                 *)
(***************************************************************************)
\* A zero-valued lab_params_t, as a caller creates it.
ZeroParams ==
    [range_L |-> RInt(0), range_a |-> RInt(0), range_b |-> RInt(0),
     offset_L |-> RInt(0), offset_a |-> RInt(0), offset_b |-> RInt(0),
     ab_are_signed |-> FALSE,
     x_n |-> RInt(0), y_n |-> RInt(0), z_n |-> RInt(0)]

\* set_lab_illuminant with the test made on new_xn.
set_lab_illuminant_TestsXn(s, new_xn, new_yn, new_zn) ==
    IF RGreater(new_xn, RInt(10))
    THEN [s EXCEPT !.x_n = RDiv(new_xn, RInt(100)),
                   !.y_n = RDiv(new_yn, RInt(100)),
                   !.z_n = RDiv(new_zn, RInt(100))]
    ELSE [s EXCEPT !.x_n = new_xn, !.y_n = new_yn, !.z_n = new_zn]

set_lab_illuminant(s, new_xn, new_yn, new_zn) ==
    IF RGreater(new_yn, RInt(10))
    THEN [s EXCEPT !.x_n = RDiv(new_xn, RInt(100)),
                   !.y_n = RDiv(new_yn, RInt(100)),
                   !.z_n = RDiv(new_zn, RInt(100))]
    ELSE [s EXCEPT !.x_n = new_xn, !.y_n = new_yn, !.z_n = new_zn]

\* set_lab_gamut with the offsets computed after "range /= (256.0f - 1.0f)".
set_lab_gamut_OffsetAfterShrink(s, L_min, L_max, a_min, a_max, b_min, b_max, ab_are_signed) ==
    [s EXCEPT !.range_L = Rat(L_max - L_min, 255),
              !.range_a = Rat(a_max - a_min, 255),
              !.range_b = Rat(b_max - b_min, 255),
              !.offset_L = Rat(-256 * 255 * L_min, L_max - L_min),
              !.offset_a = Rat(-256 * 255 * a_min, a_max - a_min),
              !.offset_b = Rat(-256 * 255 * b_min, b_max - b_min),
              !.ab_are_signed = ab_are_signed]

\* range = max - min; offset = -256.0f*min/range on the unshrunk range;
\* then range /= (256.0f - 1.0f).
set_lab_gamut(s, L_min, L_max, a_min, a_max, b_min, b_max, ab_are_signed) ==
    [s EXCEPT !.range_L = Rat(L_max - L_min, 255),
              !.range_a = Rat(a_max - a_min, 255),
              !.range_b = Rat(b_max - b_min, 255),
              !.offset_L = Rat(-256 * L_min, L_max - L_min),
              !.offset_a = Rat(-256 * a_min, a_max - a_min),
              !.offset_b = Rat(-256 * b_min, b_max - b_min),
              !.ab_are_signed = ab_are_signed]

set_lab_gamut2(s, L_P, L_Q, a_P, a_Q, b_P, b_Q) ==
    [s EXCEPT !.range_L = Rat(L_Q, 255),
              !.range_a = Rat(a_Q, 255),
              !.range_b = Rat(b_Q, 255),
              !.offset_L = RInt(L_P),
              !.offset_a = RInt(a_P),
              !.offset_b = RInt(b_P),
              !.ab_are_signed = FALSE]

\* memcmp(code, illuminants[i].tag, 2) == 0
TagMatches_TwoBytes(code, i) == \A k \in 1..2 : code[k] = illuminants[i].tag[k]

\* memcmp(code, illuminants[i].tag, 4) == 0
TagMatches(code, i) == \A k \in 1..4 : code[k] = illuminants[i].tag[k]

\* The index at which the loop "for (i = 0; illuminants[i].name[0]; i++)"
\* stops: the first named entry whose tag matches, else the terminator.
RECURSIVE IlluminantSearch(_, _)
IlluminantSearch(code, i) ==
    IF illuminants[i].name = "" THEN i
    ELSE IF TagMatches(code, i) THEN i
    ELSE IlluminantSearch(code, i + 1)

\* set_illuminant_from_code without the "break" guarding the end of the
\* table: the entry the loop stops at is applied, the terminator included.
set_illuminant_from_code_ApplyTerminator(s, code) ==
    IF code[1] = 67 /\ code[2] = 84
    THEN s
    ELSE LET i == IlluminantSearch(code, 1)
         IN set_lab_illuminant(s, Rat(illuminants[i].xn, 1000),
                                  Rat(illuminants[i].yn, 1000),
                                  Rat(illuminants[i].zn, 1000))

\* code is a sequence of 4 bytes
set_illuminant_from_code(s, code) ==
    IF code[1] = 67 /\ code[2] = 84          \* 'C', 'T': colour temperature
    THEN s
    ELSE LET i == IlluminantSearch(code, 1)
         IN IF illuminants[i].name = "" THEN s
            ELSE set_lab_illuminant(s, Rat(illuminants[i].xn, 1000),
                                       Rat(illuminants[i].yn, 1000),
                                       Rat(illuminants[i].zn, 1000))

\* set_gamut_from_code reading its six fields low byte first.
set_gamut_from_code_LittleEndian(s, code) ==
    LET val == [i \in 0..5 |-> pack_16(code[2*i + 2], code[2*i + 1])]
    IN set_lab_gamut2(s, val[0], val[1], val[2], val[3], val[4], val[5])

\* code is a sequence of 12 bytes
set_gamut_from_code(s, code) ==
    LET val == [i \in 0..5 |-> pack_16(code[2*i + 1], code[2*i + 2])]
    IN set_lab_gamut2(s, val[0], val[1], val[2], val[3], val[4], val[5])

(***************************************************************************)
(* The quantiser (T.4 E.6.4), per pixel.  A cielab_t is [L, a, b], an      *)
(* ITULab pixel three bytes.                                               *)
(***************************************************************************)
\* val = floorf(v/range + offset);
\* (uint8_t) (val < 0.0)  ?  0  :  (val < 256.0)  ?  val  :  255
\* For val infinite or NaN the comparisons alone decide.
QuantiseChannel(v, range, offset) ==
    LET q == RAdd(RDiv(v, range), offset)
    IN IF q.d = 0 THEN (IF q.n < 0 THEN 0 ELSE 255)
       ELSE LET val == RFloor(q)
            IN IF val < 0 THEN 0 ELSE IF val < 256 THEN val ELSE 255

\* The quantiser with the conversion to uint8_t doing the work of the clamp.
lab_to_itu_Unclamped(s, lab) ==
    LET wrap(v, range, offset) == RFloor(RAdd(RDiv(v, range), offset)) % 256
        out == << wrap(lab.L, s.range_L, s.offset_L),
                  wrap(lab.a, s.range_a, s.offset_a),
                  wrap(lab.b, s.range_b, s.offset_b) >>
    IN IF s.ab_are_signed
       THEN << out[1], (out[2] - 128) % 256, (out[3] - 128) % 256 >>
       ELSE out

\* out[1] -= 128 and out[2] -= 128 are uint8_t arithmetic, modulo 256.
lab_to_itu(s, lab) ==
    LET out == << QuantiseChannel(lab.L, s.range_L, s.offset_L),
                  QuantiseChannel(lab.a, s.range_a, s.offset_a),
                  QuantiseChannel(lab.b, s.range_b, s.offset_b) >>
    IN IF s.ab_are_signed
       THEN << out[1], (out[2] - 128) % 256, (out[3] - 128) % 256 >>
       ELSE out

\* The dequantiser adding 128 as an int, without the wrap of a uint8_t.
itu_to_lab_NoWrap(s, in) ==
    LET a == IF s.ab_are_signed THEN in[2] + 128 ELSE in[2]
        b == IF s.ab_are_signed THEN in[3] + 128 ELSE in[3]
    IN [L |-> RMul(s.range_L, RSub(RInt(in[1]), s.offset_L)),
        a |-> RMul(s.range_a, RSub(RInt(a), s.offset_a)),
        b |-> RMul(s.range_b, RSub(RInt(b), s.offset_b))]

\* uint8_t a = in[1], b = in[2];  a += 128 and b += 128 modulo 256.
itu_to_lab(s, in) ==
    LET a == IF s.ab_are_signed THEN (in[2] + 128) % 256 ELSE in[2]
        b == IF s.ab_are_signed THEN (in[3] + 128) % 256 ELSE in[3]
    IN [L |-> RMul(s.range_L, RSub(RInt(in[1]), s.offset_L)),
        a |-> RMul(s.range_a, RSub(RInt(a), s.offset_a)),
        b |-> RMul(s.range_b, RSub(RInt(b), s.offset_b))]

(***************************************************************************)
(* The colour transforms, per pixel (the bodies of the loops of            *)
(* srgb_to_lab and lab_to_srgb, built with T42_USE_LUTS).  Between the     *)
(* bytes at its two ends a pixel is a chain of float operations, among     *)
(* them cbrtf; here each float of the chain is a fixed point number, an    *)
(* integer count of 1/FP, and every operation rounds down to it.  The      *)
(* quantiser keeps its exact quotients.  The two tables of cielab_luts.h   *)
(* are the tabulations of the gamma laws the code keeps under #else.       *)
(***************************************************************************)
FP == 16384

\* A rational (positive denominator) as a fixed point number.
Fix(q) == (q.n * FP) \div q.d

\* (int) of a quotient: rounded toward zero.
Trunc(a, b) == IF a >= 0 THEN a \div b ELSE -((-a) \div b)

\* t*t*t
Cube(t) == ((((t * t) \div FP) * t) \div FP)

\* cbrtf(t) for t >= 0: the largest fixed point number whose cube is at most t.
RECURSIVE CbrtBetween(_, _, _)
CbrtBetween(t, lo, hi) ==
    IF lo >= hi THEN lo
    ELSE LET mid == (lo + hi + 1) \div 2
         IN IF Cube(mid) <= t THEN CbrtBetween(t, mid, hi)
                              ELSE CbrtBetween(t, lo, mid - 1)

cbrtf(t) == CbrtBetween(t, 0, FP + FP \div 2)

\* static const float sRGB_to_linear[256]: entry c + 1 is, in 1/FP, the
\* linear value of the sRGB code c,
\*   r = c/256.0f;  (r > 0.04045f) ? powf((r + 0.055f)/1.055f, 2.4f) : r/12.92f
sRGB_to_linear ==
    <<
       0, 5, 10, 15, 20, 25, 30, 35, 40, 45, 50, 55, 60, 66, 72, 78,
       84, 91, 99, 106, 114, 122, 131, 140, 149, 158, 168, 178, 189, 200, 211, 223,
       235, 248, 260, 274, 287, 301, 315, 330, 345, 361, 377, 393, 410, 427, 444, 462,
       481, 500, 519, 538, 558, 579, 600, 621, 643, 665, 688, 711, 735, 759, 783, 808,
       834, 859, 886, 912, 940, 967, 996, 1024, 1053, 1083, 1113, 1144, 1175, 1206, 1238, 1271,
       1304, 1337, 1371, 1406, 1441, 1476, 1512, 1549, 1586, 1624, 1662, 1700, 1739, 1779, 1819, 1860,
       1901, 1943, 1985, 2028, 2071, 2115, 2159, 2204, 2249, 2295, 2342, 2389, 2437, 2485, 2534, 2583,
       2633, 2683, 2734, 2785, 2838, 2890, 2943, 2997, 3051, 3106, 3162, 3218, 3275, 3332, 3390, 3448,
       3507, 3566, 3626, 3687, 3748, 3810, 3873, 3936, 4000, 4064, 4129, 4194, 4260, 4327, 4394, 4462,
       4530, 4600, 4669, 4740, 4810, 4882, 4954, 5027, 5100, 5174, 5249, 5324, 5400, 5477, 5554, 5632,
       5710, 5789, 5869, 5949, 6030, 6112, 6194, 6277, 6360, 6444, 6529, 6615, 6701, 6787, 6875, 6963,
       7052, 7141, 7231, 7322, 7413, 7505, 7598, 7691, 7785, 7880, 7975, 8071, 8168, 8265, 8363, 8462,
       8561, 8661, 8762, 8863, 8965, 9068, 9171, 9276, 9380, 9486, 9592, 9699, 9807, 9915, 10024, 10133,
       10244, 10355, 10467, 10579, 10692, 10806, 10921, 11036, 11152, 11269, 11386, 11504, 11623, 11742, 11863, 11984,
       12105, 12228, 12351, 12475, 12599, 12724, 12850, 12977, 13105, 13233, 13362, 13491, 13622, 13753, 13884, 14017,
       14150, 14284, 14419, 14555, 14691, 14828, 14966, 15104, 15243, 15383, 15524, 15665, 15808, 15951, 16094, 16239 >>

\* static const uint8_t linear_to_sRGB[4096], a table that never falls, by
\* its steps: entry c is the least index whose sRGB code is c or more,
\*   r = index/4096.0f;
\*   r = (r > 0.0031308f) ? (1.055f*powf(r, 1.0f/2.4f) - 0.055f) : r*12.92f;
\*   code = floorf(r*256.0f), kept within 0..255
linear_to_sRGB_steps ==
    <<
       2, 3, 4, 5, 7, 8, 9, 10, 12, 13, 14, 15, 17, 18, 20, 22,
       23, 25, 27, 29, 31, 33, 35, 38, 40, 43, 45, 48, 51, 53, 56, 59,
       62, 66, 69, 72, 76, 79, 83, 87, 91, 95, 99, 103, 107, 112, 116, 121,
       125, 130, 135, 140, 145, 150, 156, 161, 167, 173, 178, 184, 190, 196, 203, 209,
       215, 222, 229, 235, 242, 249, 257, 264, 271, 279, 286, 294, 302, 310, 318, 326,
       335, 343, 352, 361, 370, 379, 388, 397, 406, 416, 426, 435, 445, 455, 465, 476,
       486, 497, 507, 518, 529, 540, 551, 563, 574, 586, 598, 610, 622, 634, 646, 659,
       671, 684, 697, 710, 723, 736, 750, 763, 777, 791, 805, 819, 833, 848, 862, 877,
       892, 907, 922, 938, 953, 969, 984, 1000, 1016, 1033, 1049, 1066, 1082, 1099, 1116, 1133,
       1150, 1168, 1185, 1203, 1221, 1239, 1257, 1276, 1294, 1313, 1332, 1351, 1370, 1389, 1408, 1428,
       1448, 1468, 1488, 1508, 1528, 1549, 1570, 1591, 1612, 1633, 1654, 1676, 1697, 1719, 1741, 1763,
       1786, 1808, 1831, 1854, 1877, 1900, 1923, 1947, 1970, 1994, 2018, 2042, 2067, 2091, 2116, 2141,
       2166, 2191, 2216, 2242, 2267, 2293, 2319, 2346, 2372, 2399, 2425, 2452, 2479, 2506, 2534, 2561,
       2589, 2617, 2645, 2674, 2702, 2731, 2759, 2788, 2818, 2847, 2877, 2906, 2936, 2966, 2996, 3027,
       3057, 3088, 3119, 3150, 3182, 3213, 3245, 3277, 3309, 3341, 3373, 3406, 3439, 3472, 3505, 3538,
       3572, 3605, 3639, 3673, 3707, 3742, 3777, 3811, 3846, 3881, 3917, 3952, 3988, 4024, 4060 >>

\* linear_to_sRGB[index], index in 0..4095
linear_to_sRGB(index) ==
    Cardinality({c \in 1..255 : linear_to_sRGB_steps[c] <= index})

\* (t <= 0.008856f) ? (7.787f*t + 0.1379f) : cbrtf(t)
LabCurve(t) ==
    IF t <= (8856 * FP) \div 1000000
    THEN ((7787 * t) \div 1000) + ((1379 * FP) \div 10000)
    ELSE cbrtf(t)

\* (t <= 0.2068f) ? (0.1284f*(t - 0.1379f)) : t*t*t
LabCurveInverse(t) ==
    IF t <= (2068 * FP) \div 10000
    THEN (1284 * (t - ((1379 * FP) \div 10000))) \div 10000
    ELSE Cube(t)

\* srgb_to_lab without the division by the white point.
srgb_to_lab_pixel_NoIlluminant(s, srgb) ==
    LET r == sRGB_to_linear[srgb[1] + 1]
        g == sRGB_to_linear[srgb[2] + 1]
        b == sRGB_to_linear[srgb[3] + 1]
        x == (4124 * r + 3576 * g + 1805 * b) \div 10000
        y == (2126 * r + 7152 * g + 722 * b) \div 10000
        z == (193 * r + 1192 * g + 9505 * b) \div 10000
        xx == LabCurve(x)
        yy == LabCurve(y)
        zz == LabCurve(z)
        l == [L |-> Rat(116 * yy - 16 * FP, FP),
              a |-> Rat(500 * (xx - yy), FP),
              b |-> Rat(200 * (yy - zz), FP)]
    IN lab_to_itu(s, l)

\* One pass of the loop of srgb_to_lab: the ITULab bytes of an sRGB pixel.
srgb_to_lab_pixel(s, srgb) ==
    LET r == sRGB_to_linear[srgb[1] + 1]
        g == sRGB_to_linear[srgb[2] + 1]
        b == sRGB_to_linear[srgb[3] + 1]
        \* Linear RGB to XYZ, normalised for the illuminant
        x == (((4124 * r + 3576 * g + 1805 * b) \div 10000) * FP) \div Fix(s.x_n)
        y == (((2126 * r + 7152 * g + 722 * b) \div 10000) * FP) \div Fix(s.y_n)
        z == (((193 * r + 1192 * g + 9505 * b) \div 10000) * FP) \div Fix(s.z_n)
        \* XYZ to Lab
        xx == LabCurve(x)
        yy == LabCurve(y)
        zz == LabCurve(z)
        l == [L |-> Rat(116 * yy - 16 * FP, FP),
              a |-> Rat(500 * (xx - yy), FP),
              b |-> Rat(200 * (yy - zz), FP)]
    IN lab_to_itu(s, l)

\* val = v*4096.0f;  linear_to_sRGB[(val < 0) ? 0 : (val < 4095) ? val : 4095]
LinearToCode(v) ==
    LET val == Trunc(v * 4096, FP)
    IN linear_to_sRGB(IF val < 0 THEN 0 ELSE IF val < 4095 THEN val ELSE 4095)

\* One pass of the loop of lab_to_srgb: the sRGB bytes of an ITULab pixel.
lab_to_srgb_pixel(s, lab) ==
    LET l == itu_to_lab(s, lab)
        \* Lab to XYZ
        ll == Fix(RDiv(RAdd(l.L, RInt(16)), RInt(116)))
        y0 == LabCurveInverse(ll)
        x0 == LabCurveInverse(ll + Fix(RDiv(l.a, RInt(500))))
        z0 == LabCurveInverse(ll - Fix(RDiv(l.b, RInt(200))))
        \* Normalise for the illuminant
        x == (x0 * Fix(s.x_n)) \div FP
        y == (y0 * Fix(s.y_n)) \div FP
        z == (z0 * Fix(s.z_n)) \div FP
        \* XYZ to linear RGB
        r == (32406 * x - 15372 * y - 4986 * z) \div 10000
        g == (18758 * y + 415 * z - 9689 * x) \div 10000
        b == (557 * x - 2040 * y + 10570 * z) \div 10000
    IN << LinearToCode(r), LinearToCode(g), LinearToCode(b) >>

(***************************************************************************)
(* Marker segments (jpeg_saved_marker_ptr) and the marker scan             *)
(***************************************************************************)
\* A saved marker: its class, its data (data_length = Len(data)) and the
\* bytes that follow the data in memory.
Segment(marker, data, after) == [marker |-> marker, data |-> data, after |-> after]

data_length(seg) == Len(seg.data)

\* data[i] for the C index i >= 0, in or past the data
Byte(seg, i) ==
    IF i < Len(seg.data) THEN seg.data[i + 1] ELSE seg.after[i - Len(seg.data) + 1]

\* &data[from], n bytes
Bytes(seg, from, n) == [k \in 1..n |-> Byte(seg, from + k - 1)]

\* strncmp((const char *) data, "G3FAX", 5) == 0
HasG3FAXPrefix(seg) == \A k \in 1..5 : Byte(seg, k - 1) = G3FAX[k]

\* The indices of data that strncmp(data, "G3FAX", 5) reads: up to the first
\* byte that differs.
StrncmpReads(seg) ==
    {k \in 0..4 : \A j \in 0..(k - 1) : Byte(seg, j) = G3FAX[j + 1]}

\* The indices of data that one pass of the body of "while (ptr)" reads.
\* Sub-type 0 unpacks data[6..9], sub-type 1 hands &data[6] to
\* set_gamut_from_code, which unpacks 12 bytes, sub-type 2 hands it to
\* set_illuminant_from_code, which reads 4 bytes (code[0], code[1] and
\* pack_16(&code[2]), or memcmp(code, tag, 4)), sub-type 3 unpacks data[6..7].
DataReads(seg) ==
    IF seg.marker = JPEG_APP0 + 1 /\ data_length(seg) >= 6
    THEN StrncmpReads(seg)
         \cup (IF HasG3FAXPrefix(seg)
                THEN {5} \cup (CASE Byte(seg, 5) = 0 -> 6..9
                                  [] Byte(seg, 5) = 1 -> 6..17
                                  [] Byte(seg, 5) = 2 -> 6..9
                                  [] Byte(seg, 5) = 3 -> 6..7
                                  [] OTHER -> {})
                ELSE {})
    ELSE {}

\* The body of "while (ptr)" with the data_length test left out.
ScanSegment_NoLengthTest(acc, seg) ==
    IF seg.marker = JPEG_APP0 + 1 /\ HasG3FAXPrefix(seg)
    THEN CASE Byte(seg, 5) = 0 -> [acc EXCEPT !.ok = TRUE]
           [] Byte(seg, 5) = 1 ->
                [ok |-> TRUE, s |-> set_gamut_from_code(acc.s, Bytes(seg, 6, 12))]
           [] Byte(seg, 5) = 2 ->
                [ok |-> TRUE, s |-> set_illuminant_from_code(acc.s, Bytes(seg, 6, 4))]
           [] OTHER -> acc
    ELSE acc

\* The body of "while (ptr)" of a scan that stops at the first recognised
\* segment.
ScanSegment_FirstMatchOnly(acc, seg) ==
    IF acc.ok THEN acc
    ELSE IF seg.marker = JPEG_APP0 + 1 /\ data_length(seg) >= 6 /\ HasG3FAXPrefix(seg)
    THEN CASE Byte(seg, 5) = 0 -> [acc EXCEPT !.ok = TRUE]
           [] Byte(seg, 5) = 1 ->
                [ok |-> TRUE, s |-> set_gamut_from_code(acc.s, Bytes(seg, 6, 12))]
           [] Byte(seg, 5) = 2 ->
                [ok |-> TRUE, s |-> set_illuminant_from_code(acc.s, Bytes(seg, 6, 4))]
           [] OTHER -> acc
    ELSE acc

\* The body of "while (ptr)" with "ok = TRUE" in case 3 as in the other cases.
ScanSegment_PaletteRecognised(acc, seg) ==
    IF seg.marker = JPEG_APP0 + 1 /\ data_length(seg) >= 6 /\ HasG3FAXPrefix(seg)
    THEN CASE Byte(seg, 5) = 0 -> [acc EXCEPT !.ok = TRUE]
           [] Byte(seg, 5) = 1 ->
                [ok |-> TRUE, s |-> set_gamut_from_code(acc.s, Bytes(seg, 6, 12))]
           [] Byte(seg, 5) = 2 ->
                [ok |-> TRUE, s |-> set_illuminant_from_code(acc.s, Bytes(seg, 6, 4))]
           [] Byte(seg, 5) = 3 -> [acc EXCEPT !.ok = TRUE]
           [] OTHER -> acc
    ELSE acc

\* One pass of the body of "while (ptr)": acc is [ok, s].
ScanSegment(acc, seg) ==
    IF seg.marker = JPEG_APP0 + 1 /\ data_length(seg) >= 6 /\ HasG3FAXPrefix(seg)
    THEN CASE Byte(seg, 5) = 0 -> [acc EXCEPT !.ok = TRUE]
           [] Byte(seg, 5) = 1 ->
                [ok |-> TRUE, s |-> set_gamut_from_code(acc.s, Bytes(seg, 6, 12))]
           [] Byte(seg, 5) = 2 ->
                [ok |-> TRUE, s |-> set_illuminant_from_code(acc.s, Bytes(seg, 6, 4))]
           [] OTHER -> acc
    ELSE acc

\* ok = FALSE; while (ptr) { ...; ptr = ptr->next; } return ok;
RECURSIVE ScanFrom(_, _, _)
ScanFrom(acc, chain, i) ==
    IF i > Len(chain) THEN acc
    ELSE ScanFrom(ScanSegment(acc, chain[i]), chain, i + 1)

isITUfax(s, chain) == ScanFrom([ok |-> FALSE, s |-> s], chain, 1)

\* SetITUFax without "unpack_16(marker + 8, 200)": the array as initialised.
SetITUFax_NoResolution ==
    Segment(JPEG_APP0 + 1, G3FAX \o <<0, 7, 202>> \o <<0, 0>>, <<>>)

\* SetITUFax: the marker written into ITULab output, { 'G','3','F','A','X',
\* 0x00, 0x07, 0xCA, 0x00, 0x00 } with unpack_16(marker + 8, 200), written by
\* jpeg_write_marker(cinfo, JPEG_APP0 + 1, marker, 10).
SetITUFax ==
    Segment(JPEG_APP0 + 1, G3FAX \o <<0, 7, 202>> \o unpack_16(200), <<>>)

(***************************************************************************)
(* The colour transforms, per scanline.  The arithmetic of a pixel is not  *)
(* needed to follow a scanline through a bridging operation: a transformed *)
(* scanline is the term naming the transform, the parameters it ran under  *)
(* and the scanline it read.                                               *)
(***************************************************************************)
NoLine == [from |-> "none", at |-> 0, len |-> 0]

\* Scanline number row of the decoded source image (jpeg_read_scanlines).
JpegLine(row, len) == [from |-> "jpeg", at |-> row, len |-> len]

\* The len bytes at src + pos of a caller's raw buffer.
SrcLine(pos, len) == [from |-> "src", at |-> pos, len |-> len]

lab_to_srgb(s, lab, pixels) ==
    [fn |-> "lab_to_srgb", s |-> s, src |-> lab, pixels |-> pixels]

srgb_to_lab(s, srgb, pixels) ==
    [fn |-> "srgb_to_lab", s |-> s, src |-> srgb, pixels |-> pixels]

(***************************************************************************)
(* C strings                                                               *)
(***************************************************************************)
\* The string strncpy(dst, src, n) leaves in dst once dst[n] = '\0' is set.
strncpy(src, n) == SubSeq(src, 1, Min(Len(src), n))

\* emsg is [text, extent]: the string it holds and the number of bytes of
\* it written so far, counted from emsg[0].
Larger(a, b) == IF a > b THEN a ELSE b

\* strcpy(emsg, msg): Len(msg) + 1 bytes, whatever the size of emsg.
strcpy_emsg(emsg, msg) ==
    [text |-> msg, extent |-> Larger(emsg.extent, Len(msg) + 1)]

\* if (emsg[0] == '\0') strcpy(emsg, msg);
strcpy_if_empty(emsg, msg) ==
    IF emsg.text = "" THEN strcpy_emsg(emsg, msg) ELSE emsg

(***************************************************************************)
(* The bridging operations as sequences of steps, in source order          *)
(***************************************************************************)
Ops == {"t42_itulab_to_jpeg", "t42_jpeg_to_itulab", "t42_srgb_to_itulab",
        "t42_itulab_to_itulab", "t42_itulab_to_srgb"}

Flow_t42_itulab_to_jpeg_StoreEarly ==
    << "open_in", "open_out", "setjmp", "std_error", "set_handler",
       "create_decompress", "fseek", "read_header", "isITUfax",
       "std_error", "set_handler", "create_compress",
       "start_decompress", "start_compress", "malloc_in", "malloc_out",
       "loop_test", "read_scanlines", "transform", "write_scanlines", "loop_next",
       "free_in", "free_out", "store_dst", "finish_decompress", "finish_compress",
       "destroy", "return_true" >>

Flow_t42_itulab_to_jpeg ==
    << "open_in", "open_out", "setjmp", "std_error", "set_handler",
       "create_decompress", "fseek", "read_header", "isITUfax",
       "std_error", "set_handler", "create_compress",
       "start_decompress", "start_compress", "malloc_in", "malloc_out",
       "loop_test", "read_scanlines", "transform", "write_scanlines", "loop_next",
       "free_in", "free_out", "finish_decompress", "finish_compress",
       "destroy", "store_dst", "return_true" >>

Flow_t42_jpeg_to_itulab ==
    << "open_in", "open_out", "setjmp", "std_error", "set_handler",
       "create_decompress", "fseek", "read_header",
       "std_error", "set_handler", "create_compress",
       "start_decompress", "start_compress", "SetITUFax", "malloc_in", "malloc_out",
       "loop_test", "read_scanlines", "transform", "write_scanlines", "loop_next",
       "free_in", "free_out", "finish_decompress", "finish_compress",
       "destroy", "store_dst", "return_true" >>

Flow_t42_srgb_to_itulab ==
    << "open_out", "setjmp", "std_error", "set_handler", "create_compress",
       "start_compress", "SetITUFax", "malloc_out",
       "loop_test", "transform", "write_scanlines", "loop_next",
       "free_out", "finish_compress", "destroy", "store_dst", "return_true" >>

\* t42_itulab_to_itulab without its call of SetITUFax.
Flow_t42_itulab_to_itulab_NoMarker ==
    << "open_out", "setjmp", "std_error", "set_handler", "create_compress",
       "start_compress",
       "loop_test", "write_scanlines", "loop_next",
       "finish_compress", "destroy", "store_dst", "return_true" >>

Flow_t42_itulab_to_itulab ==
    << "open_out", "setjmp", "std_error", "set_handler", "create_compress",
       "start_compress", "SetITUFax",
       "loop_test", "write_scanlines", "loop_next",
       "finish_compress", "destroy", "store_dst", "return_true" >>

\* t42_itulab_to_srgb looking at the markers in the loop, once the scanline
\* has been transformed.
Flow_t42_itulab_to_srgb_ScanAfterTransform ==
    << "open_in", "setjmp", "std_error", "set_handler",
       "create_decompress", "fseek", "read_header", "store_size",
       "start_decompress", "malloc_in",
       "loop_test", "read_scanlines", "transform", "isITUfax", "loop_next",
       "free_in", "finish_decompress", "destroy", "store_dst", "return_true" >>

Flow_t42_itulab_to_srgb ==
    << "open_in", "setjmp", "std_error", "set_handler",
       "create_decompress", "fseek", "read_header", "isITUfax", "store_size",
       "start_decompress", "malloc_in",
       "loop_test", "read_scanlines", "transform", "loop_next",
       "free_in", "finish_decompress", "destroy", "store_dst", "return_true" >>

Flow(o) ==
    CASE o = "t42_itulab_to_jpeg" -> Flow_t42_itulab_to_jpeg
      [] o = "t42_jpeg_to_itulab" -> Flow_t42_jpeg_to_itulab
      [] o = "t42_srgb_to_itulab" -> Flow_t42_srgb_to_itulab
      [] o = "t42_itulab_to_itulab" -> Flow_t42_itulab_to_itulab
      [] o = "t42_itulab_to_srgb" -> Flow_t42_itulab_to_srgb

\* The position of the first step of a kind in an operation.
PosOf(o, kind) == CHOOSE i \in 1..Len(Flow(o)) :
                     Flow(o)[i] = kind /\ \A j \in 1..(i - 1) : Flow(o)[j] # kind

\* The steps that call into the codec: the calls at which its error
\* callback can fire.
CodecSteps == {"create_decompress", "read_header", "create_compress",
               "start_decompress", "start_compress", "SetITUFax",
               "read_scanlines", "write_scanlines",
               "finish_decompress", "finish_compress"}

\* The operations that decode a JPEG source (the others read a raw buffer).
DecodeOps == {"t42_itulab_to_jpeg", "t42_jpeg_to_itulab", "t42_itulab_to_srgb"}

\* The operation that returns when isITUfax fails; t42_itulab_to_srgb has
\* its "return FALSE" commented out.
StrictOps_None == {}

StrictOps_Both == {"t42_itulab_to_jpeg", "t42_itulab_to_srgb"}

StrictOps == {"t42_itulab_to_jpeg"}

\* The operations whose recovery point replaces an empty message.
FallbackOps == {"t42_itulab_to_jpeg", "t42_itulab_to_srgb"}

\* The recovery point without the truncation: strcpy for strncpy.
Recover_Untruncated(o, emsg, error_message, max_emsg_bytes) ==
    LET copied == strcpy_emsg(emsg, error_message)
    IN IF o \in FallbackOps /\ copied.text = ""
       THEN strcpy_emsg(copied, "Unspecified libjpeg error.")
       ELSE copied

\* The block under "if (setjmp(escape.escape))":
\*   strncpy(emsg, escape.error_message, max_emsg_bytes - 1);
\*   emsg[max_emsg_bytes - 1] = '\0';
\*   [ if (emsg[0] == '\0') strcpy(emsg, "Unspecified libjpeg error."); ]
Recover(o, emsg, error_message, max_emsg_bytes) ==
    LET copied == [text |-> strncpy(error_message, max_emsg_bytes - 1),
                   extent |-> Larger(emsg.extent, max_emsg_bytes)]
    IN IF o \in FallbackOps /\ copied.text = ""
       THEN strcpy_emsg(copied, "Unspecified libjpeg error.")
       ELSE copied

(***************************************************************************)
(* Inputs                                                                  *)
(***************************************************************************)
Zeros12 == <<0, 0, 0, 0, 0, 0, 0, 0, 0, 0, 0, 0>>

Stray12 == <<1, 44, 0, 255, 2, 0, 0, 90, 67, 84, 0, 7>>

\* Version 0x07CA, 200 dpi: what SetITUFax writes.
SegVersion == Segment(JPEG_APP0 + 1, G3FAX \o <<0, 7, 202, 0, 200>>, <<>>)
\* Gamut L [0,100], a* [-85,85], b* [-75,125] in P/Q form.
SegGamutA == Segment(JPEG_APP0 + 1,
                     G3FAX \o <<1, 0, 0, 0, 100, 0, 128, 0, 170, 0, 96, 0, 200>>, <<>>)
SegGamutB == Segment(JPEG_APP0 + 1,
                     G3FAX \o <<1, 0, 16, 1, 0, 0, 64, 2, 0, 0, 32, 0, 255>>, <<>>)
SegD65 == Segment(JPEG_APP0 + 1, G3FAX \o <<2, 0, 68, 54, 53>>, <<>>)
SegD50 == Segment(JPEG_APP0 + 1, G3FAX \o <<2, 0, 68, 53, 48>>, <<>>)
\* "CT" and 6500 K
SegColourTemp == Segment(JPEG_APP0 + 1, G3FAX \o <<2, 67, 84, 25, 100>>, <<>>)
SegUnknownIlluminant == Segment(JPEG_APP0 + 1, G3FAX \o <<2, 0, 68, 57, 57>>, <<>>)
SegZeroIlluminant == Segment(JPEG_APP0 + 1, G3FAX \o <<2, 0, 0, 0, 0>>, <<>>)
SegPalette == Segment(JPEG_APP0 + 1, G3FAX \o <<3, 0, 1>>, <<>>)
SegSubtype9 == Segment(JPEG_APP0 + 1, G3FAX \o <<9, 0, 0, 0, 0>>, <<>>)
\* "Exif\0\0"
SegExif == Segment(JPEG_APP0 + 1, <<69, 120, 105, 102, 0, 0, 77, 77>>, <<>>)
\* A G3FAX version record in an APP0 segment
SegApp0 == Segment(JPEG_APP0, G3FAX \o <<0, 7, 202, 0, 200>>, <<>>)
\* Segments shorter than their layout, with what lies behind them
SegBare == Segment(JPEG_APP0 + 1, G3FAX, Zeros12)
SegShortVersion == Segment(JPEG_APP0 + 1, G3FAX \o <<0>>, Stray12)
SegShortGamut == Segment(JPEG_APP0 + 1, G3FAX \o <<1, 0, 0, 0, 100>>, Stray12)
SegShortIlluminant == Segment(JPEG_APP0 + 1, G3FAX \o <<2, 0>>, <<68, 54, 53>> \o Stray12)
SegShortPalette == Segment(JPEG_APP0 + 1, G3FAX \o <<3>>, Stray12)

SegmentPool ==
    {SegVersion, SegGamutA, SegGamutB, SegD65, SegD50, SegColourTemp,
     SegUnknownIlluminant, SegZeroIlluminant, SegPalette, SegSubtype9,
     SegExif, SegApp0, SegBare, SegShortVersion, SegShortGamut,
     SegShortIlluminant, SegShortPalette}

\* All marker chains of at most MaxChain segments of the pool.
Chains == UNION {[1..n -> SegmentPool] : n \in 0..MaxChain}

\* The marker chains of the JPEG sources handed to the bridging operations.
BridgeChains ==
    { <<>>, <<SegExif>>, <<SegPalette, SegApp0>>, <<SegVersion>>,
      <<SegGamutB, SegD65>>, <<SegExif, SegVersion, SegGamutA>> }

\* D50 white point and the default gamut, as a caller sets them up.
DefaultParams ==
    set_lab_gamut(set_lab_illuminant(ZeroParams, Rat(96422, 1000), RInt(100),
                                     Rat(82521, 1000)),
                  0, 100, -85, 85, -75, 125, FALSE)

InitParams == {ZeroParams, DefaultParams}

\* Sizes of the caller's message buffer: the least one, one that holds none
\* of the fixed messages, one that holds them all.
EmsgSizes == {1, 8, 64}

\* Messages the codec's format_message can produce.
CodecMessages == {"", "Bogus marker length",
                  "Improper call to JPEG library in state 205"}

\* compressor.input_components = 3
NumComponents == 3

JpegSources ==
    [markers : BridgeChains, srclen : {0}, width : 1..MaxWidth, height : 0..MaxHeight]

RawSources ==
    [markers : {<<>>}, srclen : 0..(NumComponents * MaxWidth * MaxHeight),
     width : 1..MaxWidth, height : 0..MaxHeight]

Sources(o) == IF o \in DecodeOps THEN JpegSources ELSE RawSources

\* t42_itulab_to_itulab takes no lab_params_t.
ParamsFor(o) == IF o = "t42_itulab_to_itulab" THEN {ZeroParams} ELSE InitParams

(***************************************************************************)
(* State                                                                   *)
(***************************************************************************)
VARIABLES
    op,             \* the bridging operation called, "none" before the call
    arg,            \* its arguments: max_emsg_bytes, s0 (*s at the call), src
    pc,             \* the position in Flow(op)
    result,         \* "idle", "running", "TRUE", "FALSE", or "exit": the
                    \* process ended in the codec's default error_exit
    s,              \* *s, the caller's lab_params_t
    emsg,           \* the caller's message buffer, [text, extent]
    escape,         \* escape_route_t: [armed, error_message]
    error_handler,  \* the static jpeg_error_mgr: [error_exit, output_message]
    okflag,         \* what isITUfax returned: "unset", "yes", "no"
    scan_line_in,   \* [state, data]; state "unset", "live", "freed", "freed_twice"
    scan_line_out,
    row,            \* decompressor.output_scanline
    pos,
    enc,            \* what the compressor was given, in order
    out,            \* the caller's outputs: [written, dstlen, width, height, buf]
    fault,          \* what the environment made fail: "none", "open", "seek",
                    \* "codec", "alloc"
    scan,           \* a run of isITUfax alone: [chain, s0, ptr, acc, returned]
    thr,            \* two threads: [t |-> [op, pc, outcome]]
    par,            \* a lab_params_t under its setters: [s, before, call]
    px,             \* one pixel under the quantiser: [s, lab, itu, back, done]
    rgb             \* one sRGB pixel to ITULab and back: [s, srgb, lab, back, done]

bridge_vars == <<op, arg, pc, result, s, emsg, escape, okflag,
                 scan_line_in, scan_line_out, row, pos, enc, out, fault>>

vars == <<op, arg, pc, result, s, emsg, escape, error_handler, okflag,
          scan_line_in, scan_line_out, row, pos, enc, out, fault, scan, thr, par, px, rgb>>

NoArg == [max_emsg_bytes |-> 1, s0 |-> ZeroParams,
          src |-> [markers |-> <<>>, srclen |-> 0, width |-> 1, height |-> 0]]

NoBuffer == [state |-> "unset", data |-> NoLine]

\* The caller's outputs before the call.
NoOut == [written |-> {}, dstlen |-> [is |-> "pre", val |-> 0],
          width |-> 0, height |-> 0, buf |-> <<>>]

BridgeIdle ==
    /\ op = "none"
    /\ arg = NoArg
    /\ pc = 0
    /\ result = "idle"
    /\ s = ZeroParams
    /\ emsg = [text |-> "", extent |-> 0]
    /\ escape = [armed |-> FALSE, error_message |-> ""]
    /\ okflag = "unset"
    /\ scan_line_in = NoBuffer
    /\ scan_line_out = NoBuffer
    /\ row = 0
    /\ pos = 0
    /\ enc = <<>>
    /\ out = NoOut
    /\ fault = "none"

\* static struct jpeg_error_mgr error_handler: zero until jpeg_std_error.
HandlerIdle == error_handler = [error_exit |-> "NULL", output_message |-> "NULL"]

ScanIdle == scan = [chain |-> <<>>, s0 |-> ZeroParams, ptr |-> 0,
                    acc |-> [ok |-> FALSE, s |-> ZeroParams], returned |-> FALSE]

\* No setter called yet, on a zero lab_params_t.
NoCall == [fn |-> "none", args |-> <<>>]

ParIdle == par = [s |-> ZeroParams, before |-> ZeroParams, call |-> NoCall]

NoPixel == <<0, 0, 0>>

NoLab == [L |-> RInt(0), a |-> RInt(0), b |-> RInt(0)]

PxIdle == px = [s |-> ZeroParams, lab |-> NoLab, itu |-> NoPixel, back |-> NoLab,
                done |-> "none"]

RgbIdle == rgb = [s |-> ZeroParams, srgb |-> NoPixel, lab |-> NoPixel, back |-> NoPixel,
                  done |-> "none"]

Threads == {1, 2}

ThreadsIdle == thr = [t \in Threads |-> [op |-> "none", pc |-> 0, outcome |-> "idle"]]

Running == result = "running"

Kind == Flow(op)[pc]

Width == arg.src.width


(***************************************************************************)
(* The bridging operations, one action per step                            *)
(***************************************************************************)
\* The call and the first two statements of every operation:
\*   escape.error_message[0] = '\0';  emsg[0] = '\0';
Call ==
    /\ result = "idle"
    /\ \E o \in Ops :
         \E max \in EmsgSizes, s0 \in ParamsFor(o), src \in Sources(o) :
            /\ op' = o
            /\ arg' = [max_emsg_bytes |-> max, s0 |-> s0, src |-> src]
            /\ s' = s0
    /\ pc' = 1
    /\ result' = "running"
    /\ emsg' = [text |-> "", extent |-> 1]
    /\ escape' = [armed |-> FALSE, error_message |-> ""]
    /\ UNCHANGED <<error_handler, okflag, scan_line_in, scan_line_out, row, pos,
                   enc, out, fault, scan, thr, par, px, rgb>>

\* in = fmemopen(src, srclen, "r") / out = open_memstream(&outptr, &outsize),
\* and the test for NULL that follows.
OpenStream ==
    /\ Running
    /\ Kind \in {"open_in", "open_out"}
    /\ \/ /\ pc' = pc + 1
          /\ UNCHANGED <<result, emsg, fault>>
       \/ /\ emsg' = strcpy_if_empty(emsg, IF Kind = "open_in"
                                           THEN "Failed to fmemopen()."
                                           ELSE "Failed to open_memstream().")
          /\ result' = "FALSE"
          /\ fault' = "open"
          /\ UNCHANGED pc
    /\ UNCHANGED <<op, arg, s, escape, error_handler, okflag, scan_line_in,
                   scan_line_out, row, pos, enc, out, scan, thr, par, px, rgb>>

\* if (setjmp(escape.escape)) ...: the first, direct return of setjmp.
Setjmp ==
    /\ Running
    /\ Kind = "setjmp"
    /\ escape' = [escape EXCEPT !.armed = TRUE]
    /\ pc' = pc + 1
    /\ UNCHANGED <<op, arg, result, s, emsg, error_handler, okflag, scan_line_in,
                   scan_line_out, row, pos, enc, out, fault, scan, thr, par, px, rgb>>

\* What jpeg_std_error(&error_handler) leaves in the static error_handler.
StdErrorHandler == [error_exit |-> "default", output_message |-> "default"]

\* error_handler.error_exit = jpg_error_exit;
\* error_handler.output_message = jpg_error_exit;
InstalledHandler == [error_exit |-> "jpg_error_exit", output_message |-> "jpg_error_exit"]

\* xxx.err = jpeg_std_error(&error_handler);  xxx.client_data = &escape;
StdError ==
    /\ Running
    /\ Kind = "std_error"
    /\ error_handler' = StdErrorHandler
    /\ pc' = pc + 1
    /\ UNCHANGED <<op, arg, result, s, emsg, escape, okflag, scan_line_in,
                   scan_line_out, row, pos, enc, out, fault, scan, thr, par, px, rgb>>

SetHandler ==
    /\ Running
    /\ Kind = "set_handler"
    /\ error_handler' = InstalledHandler
    /\ pc' = pc + 1
    /\ UNCHANGED <<op, arg, result, s, emsg, escape, okflag, scan_line_in,
                   scan_line_out, row, pos, enc, out, fault, scan, thr, par, px, rgb>>

\* The scanline handed to jpeg_write_scanlines: &scan_line_out, or in
\* t42_itulab_to_itulab &scan_line_in, which is src + pos.
WrittenLine ==
    IF op = "t42_itulab_to_itulab"
    THEN SrcLine(pos, Width * NumComponents)
    ELSE scan_line_out.data

\* A call into the codec that returns.
CodecCall ==
    /\ Running
    /\ Kind \in CodecSteps
    /\ row' = CASE Kind = "start_decompress" -> 0
                [] Kind = "read_scanlines" -> row + 1
                [] OTHER -> row
    /\ scan_line_in' =
          IF Kind = "read_scanlines"
          THEN [scan_line_in EXCEPT !.data = JpegLine(row + 1, Width * NumComponents)]
          ELSE scan_line_in
    /\ enc' = CASE Kind = "start_compress" -> Append(enc, [ev |-> "start", data |-> NoLine])
                [] Kind = "SetITUFax" -> Append(enc, [ev |-> "marker", data |-> SetITUFax])
                [] Kind = "write_scanlines" -> Append(enc, [ev |-> "line", data |-> WrittenLine])
                [] Kind = "finish_compress" -> Append(enc, [ev |-> "finish", data |-> NoLine])
                [] OTHER -> enc
    /\ pc' = pc + 1
    /\ UNCHANGED <<op, arg, result, s, emsg, escape, error_handler, okflag,
                   scan_line_out, pos, out, fault, scan, thr, par, px, rgb>>

\* A call into the codec that reports a fatal condition: the codec calls
\* (*cinfo->err->error_exit)(cinfo).  jpg_error_exit formats the message
\* into escape->error_message and longjmps to the operation's setjmp, whose
\* block copies the message and returns FALSE.  The codec's own error_exit
\* prints the message and calls exit().
CodecError ==
    /\ Running
    /\ Kind \in CodecSteps
    /\ fault' = "codec"
    /\ \E msg \in CodecMessages :
         IF error_handler.error_exit = "jpg_error_exit" /\ escape.armed
         THEN /\ escape' = [escape EXCEPT !.error_message = msg]
              /\ emsg' = Recover(op, emsg, msg, arg.max_emsg_bytes)
              /\ result' = "FALSE"
         ELSE /\ result' = "exit"
              /\ UNCHANGED <<escape, emsg>>
    /\ UNCHANGED <<op, arg, pc, s, error_handler, okflag, scan_line_in,
                   scan_line_out, row, pos, enc, out, scan, thr, par, px, rgb>>

\* if (fseek(in, 0, SEEK_SET) != 0) return FALSE;
Fseek ==
    /\ Running
    /\ Kind = "fseek"
    /\ \/ /\ pc' = pc + 1
          /\ UNCHANGED <<result, fault>>
       \/ /\ result' = "FALSE"
          /\ fault' = "seek"
          /\ UNCHANGED pc
    /\ UNCHANGED <<op, arg, s, emsg, escape, error_handler, okflag, scan_line_in,
                   scan_line_out, row, pos, enc, out, scan, thr, par, px, rgb>>

\* if (!isITUfax(s, decompressor.marker_list))
\* {
\*     if (emsg[0] == '\0') strcpy(emsg, "Is not ITUFAX.");
\*     return FALSE;        (commented out in t42_itulab_to_srgb)
\* }
Recognise ==
    /\ Running
    /\ Kind = "isITUfax"
    /\ LET r == isITUfax(s, arg.src.markers)
       IN /\ s' = r.s
          /\ okflag' = IF r.ok THEN "yes" ELSE "no"
          /\ emsg' = IF r.ok THEN emsg ELSE strcpy_if_empty(emsg, "Is not ITUFAX.")
          /\ IF ~r.ok /\ op \in StrictOps
             THEN result' = "FALSE" /\ UNCHANGED pc
             ELSE pc' = pc + 1 /\ UNCHANGED result
    /\ UNCHANGED <<op, arg, escape, error_handler, scan_line_in, scan_line_out,
                   row, pos, enc, out, fault, scan, thr, par, px, rgb>>

\* *width = decompressor.image_width;  *height = decompressor.image_height;
StoreSize ==
    /\ Running
    /\ Kind = "store_size"
    /\ out' = [out EXCEPT !.written = @ \cup {"width", "height"},
                          !.width = arg.src.width,
                          !.height = arg.src.height]
    /\ pc' = pc + 1
    /\ UNCHANGED <<op, arg, result, s, emsg, escape, error_handler, okflag,
                   scan_line_in, scan_line_out, row, pos, enc, fault, scan, thr, par, px, rgb>>

\* free(p) of a buffer in a given state
Freed(buf) ==
    [buf EXCEPT !.state = IF @ = "live" THEN "freed" ELSE "freed_twice"]

\* if ((scan_line_in = malloc(...)) == NULL) return FALSE;
\* if ((scan_line_out = malloc(...)) == NULL) { free(scan_line_in); return FALSE; }
\* (t42_srgb_to_itulab has no scan_line_in to free.)
Malloc ==
    /\ Running
    /\ Kind \in {"malloc_in", "malloc_out"}
    /\ \/ /\ IF Kind = "malloc_in"
             THEN /\ scan_line_in' = [scan_line_in EXCEPT !.state = "live"]
                  /\ UNCHANGED scan_line_out
             ELSE /\ scan_line_out' = [scan_line_out EXCEPT !.state = "live"]
                  /\ UNCHANGED scan_line_in
          /\ pc' = pc + 1
          /\ UNCHANGED <<result, fault>>
       \/ /\ IF Kind = "malloc_out" /\ op \in {"t42_itulab_to_jpeg", "t42_jpeg_to_itulab"}
             THEN scan_line_in' = Freed(scan_line_in)
             ELSE UNCHANGED scan_line_in
          /\ result' = "FALSE"
          /\ fault' = "alloc"
          /\ UNCHANGED <<pc, scan_line_out>>
    /\ UNCHANGED <<op, arg, s, emsg, escape, error_handler, okflag, row, pos,
                   enc, out, scan, thr, par, px, rgb>>

\* while (decompressor.output_scanline < decompressor.output_height)
\* for (pos = 0;  pos < srclen;  pos += ...)
\* for (pos = 0;  decompressor.output_scanline < decompressor.output_height;  pos += ...)
LoopCondition ==
    IF op \in DecodeOps THEN row < arg.src.height ELSE pos < arg.src.srclen

LoopTest ==
    /\ Running
    /\ Kind = "loop_test"
    /\ pc' = IF LoopCondition THEN pc + 1 ELSE PosOf(op, "loop_next") + 1
    /\ UNCHANGED <<op, arg, result, s, emsg, escape, error_handler, okflag,
                   scan_line_in, scan_line_out, row, pos, enc, out, fault, scan, thr, par, px, rgb>>

\* lab_to_srgb(s, scan_line_out, scan_line_in, decompressor.output_width);
\* srgb_to_lab(s, scan_line_out, scan_line_in, ...width);
\* with scan_line_in = src + pos in t42_srgb_to_itulab
\* and scan_line_out = dst + pos in t42_itulab_to_srgb.
Transform ==
    /\ Running
    /\ Kind = "transform"
    /\ scan_line_out' =
         CASE op = "t42_itulab_to_jpeg" ->
                [scan_line_out EXCEPT !.data = lab_to_srgb(s, scan_line_in.data, Width)]
           [] op = "t42_jpeg_to_itulab" ->
                [scan_line_out EXCEPT !.data = srgb_to_lab(s, scan_line_in.data, Width)]
           [] op = "t42_srgb_to_itulab" ->
                [scan_line_out EXCEPT
                   !.data = srgb_to_lab(s, SrcLine(pos, Width * NumComponents), Width)]
           [] OTHER -> scan_line_out
    /\ out' = IF op = "t42_itulab_to_srgb"
              THEN [out EXCEPT !.buf = Append(@, [at |-> pos,
                                                  data |-> lab_to_srgb(s, scan_line_in.data, Width)])]
              ELSE out
    /\ pc' = pc + 1
    /\ UNCHANGED <<op, arg, result, s, emsg, escape, error_handler, okflag,
                   scan_line_in, row, pos, enc, fault, scan, thr, par, px, rgb>>

\* The end of the loop body: pos += width*num_components where the loop has
\* a pos, and back to the test.
LoopNext ==
    /\ Running
    /\ Kind = "loop_next"
    /\ pos' = IF op \in {"t42_itulab_to_jpeg", "t42_jpeg_to_itulab"}
              THEN pos
              ELSE pos + Width * NumComponents
    /\ pc' = PosOf(op, "loop_test")
    /\ UNCHANGED <<op, arg, result, s, emsg, escape, error_handler, okflag,
                   scan_line_in, scan_line_out, row, enc, out, fault, scan, thr, par, px, rgb>>

\* free(scan_line_in);  free(scan_line_out);
Free ==
    /\ Running
    /\ Kind \in {"free_in", "free_out"}
    /\ IF Kind = "free_in"
       THEN scan_line_in' = Freed(scan_line_in) /\ UNCHANGED scan_line_out
       ELSE scan_line_out' = Freed(scan_line_out) /\ UNCHANGED scan_line_in
    /\ pc' = pc + 1
    /\ UNCHANGED <<op, arg, result, s, emsg, escape, error_handler, okflag,
                   row, pos, enc, out, fault, scan, thr, par, px, rgb>>

\* jpeg_destroy_decompress / jpeg_destroy_compress / fclose
Destroy ==
    /\ Running
    /\ Kind = "destroy"
    /\ pc' = pc + 1
    /\ UNCHANGED <<op, arg, result, s, emsg, escape, error_handler, okflag,
                   scan_line_in, scan_line_out, row, pos, enc, out, fault, scan, thr, par, px, rgb>>

\* *dst = outptr;  *dstlen = outsize;     (*dstlen = pos in t42_itulab_to_srgb)
StoreDst ==
    /\ Running
    /\ Kind = "store_dst"
    /\ out' = IF op = "t42_itulab_to_srgb"
              THEN [out EXCEPT !.written = @ \cup {"dstlen"},
                               !.dstlen = [is |-> "pos", val |-> pos]]
              ELSE [out EXCEPT !.written = @ \cup {"dst", "dstlen"},
                               !.dstlen = [is |-> "outsize", val |-> 0]]
    /\ pc' = pc + 1
    /\ UNCHANGED <<op, arg, result, s, emsg, escape, error_handler, okflag,
                   scan_line_in, scan_line_out, row, pos, enc, fault, scan, thr, par, px, rgb>>

\* return TRUE;
ReturnTrue ==
    /\ Running
    /\ Kind = "return_true"
    /\ result' = "TRUE"
    /\ UNCHANGED <<op, arg, pc, s, emsg, escape, error_handler, okflag,
                   scan_line_in, scan_line_out, row, pos, enc, out, fault, scan, thr, par, px, rgb>>

Init == BridgeIdle /\ HandlerIdle /\ ScanIdle /\ ThreadsIdle /\ ParIdle /\ PxIdle /\ RgbIdle

Next ==
    \/ Call
    \/ OpenStream
    \/ Setjmp
    \/ StdError
    \/ SetHandler
    \/ CodecCall
    \/ CodecError
    \/ Fseek
    \/ Recognise
    \/ StoreSize
    \/ Malloc
    \/ LoopTest
    \/ Transform
    \/ LoopNext
    \/ Free
    \/ Destroy
    \/ StoreDst
    \/ ReturnTrue

Spec == Init /\ [][Next]_vars

(***************************************************************************)
(* isITUfax alone, one pass of its loop per step                           *)
(***************************************************************************)
\* ok = FALSE, ptr at the head of the chain
ScanInit ==
    \E chain \in Chains, s0 \in InitParams :
       scan = [chain |-> chain, s0 |-> s0, ptr |-> 1,
               acc |-> [ok |-> FALSE, s |-> s0], returned |-> FALSE]

\* while (ptr) { ...;  ptr = ptr->next; }
ScanStep ==
    /\ ~scan.returned
    /\ scan.ptr <= Len(scan.chain)
    /\ scan' = [scan EXCEPT !.acc = ScanSegment(scan.acc, scan.chain[scan.ptr]),
                            !.ptr = @ + 1]
    /\ UNCHANGED <<bridge_vars, error_handler, thr, par, px, rgb>>

\* return ok;
ScanReturn ==
    /\ ~scan.returned
    /\ scan.ptr > Len(scan.chain)
    /\ scan' = [scan EXCEPT !.returned = TRUE]
    /\ UNCHANGED <<bridge_vars, error_handler, thr, par, px, rgb>>

InitMarker == BridgeIdle /\ HandlerIdle /\ ScanInit /\ ThreadsIdle /\ ParIdle /\ PxIdle /\ RgbIdle

NextMarker == ScanStep \/ ScanReturn

SpecMarker == InitMarker /\ [][NextMarker]_vars

(***************************************************************************)
(* Two bridging operations in two threads.  Each thread has its own        *)
(* lab_params_t, codec structures and escape_route_t; the static           *)
(* error_handler is the one thing they share, so a thread is followed only *)
(* through the steps of its operation that touch error_handler, call the   *)
(* codec or return.                                                        *)
(***************************************************************************)
Alive == \A t \in Threads : thr[t].outcome # "exit"

ThreadKind(t) == Flow(thr[t].op)[thr[t].pc]

ThreadRunning(t) == Alive /\ thr[t].outcome = "running"

ThreadCall(t) ==
    /\ Alive
    /\ thr[t].outcome = "idle"
    /\ \E o \in Ops : thr' = [thr EXCEPT ![t] = [op |-> o, pc |-> 1, outcome |-> "running"]]
    /\ UNCHANGED <<bridge_vars, error_handler, scan, par, px, rgb>>

\* xxx.err = jpeg_std_error(&error_handler);
ThreadStdError(t) ==
    /\ ThreadRunning(t)
    /\ ThreadKind(t) = "std_error"
    /\ error_handler' = StdErrorHandler
    /\ thr' = [thr EXCEPT ![t].pc = @ + 1]
    /\ UNCHANGED <<bridge_vars, scan, par, px, rgb>>

\* error_handler.error_exit = jpg_error_exit; ...
ThreadSetHandler(t) ==
    /\ ThreadRunning(t)
    /\ ThreadKind(t) = "set_handler"
    /\ error_handler' = InstalledHandler
    /\ thr' = [thr EXCEPT ![t].pc = @ + 1]
    /\ UNCHANGED <<bridge_vars, scan, par, px, rgb>>

ThreadCodecCall(t) ==
    /\ ThreadRunning(t)
    /\ ThreadKind(t) \in CodecSteps
    /\ thr' = [thr EXCEPT ![t].pc = @ + 1]
    /\ UNCHANGED <<bridge_vars, error_handler, scan, par, px, rgb>>

\* The codec calls (*cinfo->err->error_exit)(cinfo), cinfo->err being
\* &error_handler in every thread: jpg_error_exit longjmps to the escape of
\* cinfo->client_data, the calling operation's own; the codec's error_exit
\* ends the process.
ThreadCodecError(t) ==
    /\ ThreadRunning(t)
    /\ ThreadKind(t) \in CodecSteps
    /\ thr' = [thr EXCEPT ![t].outcome =
                  IF error_handler.error_exit = "jpg_error_exit" THEN "FALSE" ELSE "exit"]
    /\ UNCHANGED <<bridge_vars, error_handler, scan, par, px, rgb>>

\* The loop runs on or ends.
ThreadLoop(t) ==
    /\ ThreadRunning(t)
    /\ \/ /\ ThreadKind(t) = "loop_test"
          /\ \E next \in {thr[t].pc + 1, PosOf(thr[t].op, "loop_next") + 1} :
                thr' = [thr EXCEPT ![t].pc = next]
       \/ /\ ThreadKind(t) = "loop_next"
          /\ thr' = [thr EXCEPT ![t].pc = PosOf(thr[t].op, "loop_test")]
    /\ UNCHANGED <<bridge_vars, error_handler, scan, par, px, rgb>>

\* Every other step, taken as succeeding.
ThreadStep(t) ==
    /\ ThreadRunning(t)
    /\ ThreadKind(t) \notin CodecSteps \cup
                            {"std_error", "set_handler", "loop_test", "loop_next", "return_true"}
    /\ thr' = [thr EXCEPT ![t].pc = @ + 1]
    /\ UNCHANGED <<bridge_vars, error_handler, scan, par, px, rgb>>

ThreadReturn(t) ==
    /\ ThreadRunning(t)
    /\ ThreadKind(t) = "return_true"
    /\ thr' = [thr EXCEPT ![t].outcome = "TRUE"]
    /\ UNCHANGED <<bridge_vars, error_handler, scan, par, px, rgb>>

InitThreads == BridgeIdle /\ HandlerIdle /\ ScanIdle /\ ThreadsIdle /\ ParIdle /\ PxIdle /\ RgbIdle

NextThreads ==
    \E t \in Threads :
       \/ ThreadCall(t)
       \/ ThreadStdError(t)
       \/ ThreadSetHandler(t)
       \/ ThreadCodecCall(t)
       \/ ThreadCodecError(t)
       \/ ThreadLoop(t)
       \/ ThreadStep(t)
       \/ ThreadReturn(t)

SpecThreads == InitThreads /\ [][NextThreads]_vars

(***************************************************************************)
(* The setters of the Lab parameter store, called one after another on one *)
(* lab_params_t.  par.before is *s as the last call found it, par.call the *)
(* call and its arguments.                                                 *)
(***************************************************************************)
\* D65 white point and the default gamut with signed a*, b* codes.
SignedParams ==
    set_lab_gamut(set_lab_illuminant(ZeroParams, Rat(95047, 1000), RInt(100),
                                     Rat(108883, 1000)),
                  0, 100, -85, 85, -75, 125, TRUE)

ParamStates == {ZeroParams, DefaultParams, SignedParams}

\* L_min, L_max, a_min, a_max, b_min, b_max; the last with a_max = a_min.
GamutBounds ==
    { <<0, 100, -85, 85, -75, 125>>, <<0, 100, -128, 127, -128, 127>>,
      <<-10, 110, 5, 260, 10, 20>>, <<0, 100, 0, 0, -75, 125>> }

\* L_P, L_Q, a_P, a_Q, b_P, b_Q
GamutPQ == { <<0, 100, 128, 170, 96, 200>>, <<16, 256, 64, 512, 32, 255>> }

AllOnes12 == <<255, 255, 255, 255, 255, 255, 255, 255, 255, 255, 255, 255>>

GamutCodes == { Bytes(SegGamutA, 6, 12), Bytes(SegGamutB, 6, 12), Stray12, AllOnes12 }

\* new_xn, new_yn, new_zn: in percent, as fractions, with new_yn = 10 below
\* new_xn, and with new_yn alone above 10.
WhitePoints ==
    { <<Rat(96422, 1000), RInt(100), Rat(82521, 1000)>>,
      <<Rat(96422, 100000), RInt(1), Rat(82521, 100000)>>,
      <<RInt(12), RInt(10), RInt(8)>>,
      <<RInt(5), RInt(11), RInt(200)>> }

\* The first four bytes of every tag of the table; "CT" and a 16 bit
\* colour temperature; codes that are no tag.
IlluminantCodes ==
    { SubSeq(illuminants[i].tag, 1, 4) : i \in 1..Len(illuminants) }
      \cup { <<67, 84, 0, 0>>, <<67, 84, 25, 100>>, <<67, 84, 255, 255>> }
      \cup { <<0, 68, 57, 57>>, <<68, 54, 53, 0>>, <<0, 68, 54, 54>> }

ParInit ==
    \E s0 \in ParamStates : par = [s |-> s0, before |-> s0, call |-> NoCall]

Called(fn, args, after) ==
    /\ par' = [s |-> after, before |-> par.s, call |-> [fn |-> fn, args |-> args]]
    /\ UNCHANGED <<bridge_vars, error_handler, scan, thr, px, rgb>>

CallSetLabIlluminant ==
    \E w \in WhitePoints :
       Called("set_lab_illuminant", w, set_lab_illuminant(par.s, w[1], w[2], w[3]))

CallSetLabGamut ==
    \E g \in GamutBounds, ab_are_signed \in BOOLEAN :
       Called("set_lab_gamut", [bounds |-> g, ab_are_signed |-> ab_are_signed],
              set_lab_gamut(par.s, g[1], g[2], g[3], g[4], g[5], g[6], ab_are_signed))

CallSetLabGamut2 ==
    \E g \in GamutPQ :
       Called("set_lab_gamut2", g,
              set_lab_gamut2(par.s, g[1], g[2], g[3], g[4], g[5], g[6]))

CallSetIlluminantFromCode ==
    \E code \in IlluminantCodes :
       Called("set_illuminant_from_code", code, set_illuminant_from_code(par.s, code))

CallSetGamutFromCode ==
    \E code \in GamutCodes :
       Called("set_gamut_from_code", code, set_gamut_from_code(par.s, code))

InitParamStore ==
    BridgeIdle /\ HandlerIdle /\ ScanIdle /\ ThreadsIdle /\ ParInit /\ PxIdle /\ RgbIdle

NextParamStore ==
    \/ CallSetLabIlluminant
    \/ CallSetLabGamut
    \/ CallSetLabGamut2
    \/ CallSetIlluminantFromCode
    \/ CallSetGamutFromCode

SpecParams == InitParamStore /\ [][NextParamStore]_vars

(***************************************************************************)
(* One pixel through the quantiser and back: lab_to_itu as srgb_to_lab     *)
(* calls it, then itu_to_lab as lab_to_srgb calls it on the bytes.         *)
(***************************************************************************)
\* The P/Q gamut of a code with wide steps, and a gamut given with a*
\* running from 85 down to -85 (a negative range).
WideParams == set_lab_gamut2(DefaultParams, 16, 256, 64, 512, 32, 255)

InvertedParams == set_lab_gamut(SignedParams, 0, 100, 85, -85, -75, 125, TRUE)

\* Parameters with non-zero ranges.
PixelParams == {DefaultParams, SignedParams, WideParams, InvertedParams}

\* Lab values inside the gamuts, at their edges and far outside.
LabValues ==
    [L : {RInt(-30000), Rat(-1, 3), RInt(50), RInt(100), RInt(30000)},
     a : {RInt(-30000), RInt(-86), Rat(-1, 3), RInt(0), RInt(85), RInt(30000)},
     b : {RInt(-30000), RInt(-75), RInt(20), Rat(251, 2), RInt(30000)}]

PxInit ==
    \E s0 \in PixelParams, lab \in LabValues :
       px = [s |-> s0, lab |-> lab, itu |-> NoPixel, back |-> NoLab, done |-> "none"]

\* lab_to_itu(s, lab, &l);
QuantisePixel ==
    /\ px.done = "none"
    /\ px' = [px EXCEPT !.itu = lab_to_itu(px.s, px.lab), !.done = "lab_to_itu"]
    /\ UNCHANGED <<bridge_vars, error_handler, scan, thr, par, rgb>>

\* itu_to_lab(s, &l, lab);
DequantisePixel ==
    /\ px.done = "lab_to_itu"
    /\ px' = [px EXCEPT !.back = itu_to_lab(px.s, px.itu), !.done = "itu_to_lab"]
    /\ UNCHANGED <<bridge_vars, error_handler, scan, thr, par, rgb>>

InitPixel == BridgeIdle /\ HandlerIdle /\ ScanIdle /\ ThreadsIdle /\ ParIdle /\ PxInit /\ RgbIdle

NextPixel == QuantisePixel \/ DequantisePixel

SpecPixel == InitPixel /\ [][NextPixel]_vars

(***************************************************************************)
(* One sRGB pixel to ITULab and back: srgb_to_lab, then lab_to_srgb on the *)
(* bytes it produced, under the same parameters.                           *)
(***************************************************************************)
\* The levels of a channel: none, half, full.
SrgbLevels == {0, 128, 255}

RgbInit ==
    \E s0 \in PixelParams, srgb \in SrgbLevels \X SrgbLevels \X SrgbLevels :
       rgb = [s |-> s0, srgb |-> srgb, lab |-> NoPixel, back |-> NoPixel, done |-> "none"]

\* srgb_to_lab(s, lab, srgb, 1);
EncodePixel ==
    /\ rgb.done = "none"
    /\ rgb' = [rgb EXCEPT !.lab = srgb_to_lab_pixel(rgb.s, rgb.srgb),
                          !.done = "srgb_to_lab"]
    /\ UNCHANGED <<bridge_vars, error_handler, scan, thr, par, px>>

\* lab_to_srgb(s, srgb, lab, 1);
DecodePixel ==
    /\ rgb.done = "srgb_to_lab"
    /\ rgb' = [rgb EXCEPT !.back = lab_to_srgb_pixel(rgb.s, rgb.lab),
                          !.done = "lab_to_srgb"]
    /\ UNCHANGED <<bridge_vars, error_handler, scan, thr, par, px>>

InitRoundTrip ==
    BridgeIdle /\ HandlerIdle /\ ScanIdle /\ ThreadsIdle /\ ParIdle /\ PxIdle /\ RgbInit

NextRoundTrip == EncodePixel \/ DecodePixel

SpecRoundTrip == InitRoundTrip /\ [][NextRoundTrip]_vars

(***************************************************************************)
(* Properties                                                              *)
(***************************************************************************)
\* A segment of class APP1 with at least 6 bytes of data that begin "G3FAX".
IsFaxSegment(seg) ==
    /\ seg.marker = JPEG_APP0 + 1
    /\ Len(seg.data) >= 6
    /\ SubSeq(seg.data, 1, 5) = G3FAX

\* The last position of the chain whose segment satisfies P, 0 if there is none.
LastWhere(chain, P(_)) ==
    LET hits == {i \in 1..Len(chain) : P(chain[i])}
    IN IF hits = {} THEN 0 ELSE CHOOSE i \in hits : \A j \in hits : j <= i

GamutOf(p) == <<p.range_L, p.range_a, p.range_b,
                p.offset_L, p.offset_a, p.offset_b, p.ab_are_signed>>

WhiteOf(p) == <<p.x_n, p.y_n, p.z_n>>

\* C1: isITUfax returns true if and only if the chain holds at least one
\* APP1 segment of 6 or more bytes that begins "G3FAX" and has sub-type byte
\* 0, 1 or 2, whatever else the chain holds.
C1_RecognisedIffFaxSegment ==
    scan.returned =>
       (scan.acc.ok <=>
           \E i \in 1..Len(scan.chain) :
              IsFaxSegment(scan.chain[i]) /\ scan.chain[i].data[6] \in {0, 1, 2})

\* A recognised chain whose first segment is not a G3FAX record.
C1_Witness ==
    /\ scan.returned
    /\ scan.acc.ok
    /\ Len(scan.chain) = 2
    /\ ~IsFaxSegment(scan.chain[1])
    /\ IsFaxSegment(scan.chain[2])

\* C2: in t42_itulab_to_jpeg a marker chain isITUfax does not recognise
\* ends the operation: it returns FALSE with "Is not ITUFAX." in emsg, no
\* scanline has been transformed or given to the encoder, and none of the
\* caller's outputs is written.
C2_StrictNotItuFax ==
    (op = "t42_itulab_to_jpeg" /\ okflag = "no") =>
        /\ result = "FALSE"
        /\ emsg.text = "Is not ITUFAX."
        /\ scan_line_out.data = NoLine
        /\ enc = <<>>
        /\ out = NoOut

C2_Witness ==
    /\ op = "t42_itulab_to_jpeg"
    /\ okflag = "no"
    /\ result = "FALSE"
    /\ arg.src.height > 0

\* The dst contents and length t42_itulab_to_srgb produces for the source
\* image under the parameters the caller passed in.
SrgbUnderCallParams ==
    [i \in 1..arg.src.height |->
        [at |-> (i - 1) * Width * NumComponents,
         data |-> lab_to_srgb(arg.s0, JpegLine(i, Width * NumComponents), Width)]]

\* C3: in t42_itulab_to_srgb a marker chain isITUfax does not recognise
\* leaves "Is not ITUFAX." in emsg and the parameters as they were, and the
\* operation goes on: unless the stream, the codec or malloc fails it returns
\* TRUE with every scanline decoded into dst under the unchanged parameters.
C3_SoftNotItuFax ==
    (op = "t42_itulab_to_srgb" /\ okflag = "no") =>
        /\ s = arg.s0
        /\ fault = "none" =>
              /\ emsg.text = "Is not ITUFAX."
              /\ result \in {"running", "TRUE"}
              /\ result = "TRUE" =>
                    /\ out.buf = SrgbUnderCallParams
                    /\ out.dstlen = [is |-> "pos",
                                     val |-> arg.src.height * Width * NumComponents]

C3_Witness ==
    /\ op = "t42_itulab_to_srgb"
    /\ okflag = "no"
    /\ result = "TRUE"
    /\ Len(out.buf) >= 2

\* The first k characters of a message.
Prefix(m, k) == IF Len(m) <= k THEN m ELSE SubSeq(m, 1, k)

\* C4 as stated: after the codec's error callback has fired the operation
\* has returned FALSE and emsg holds the codec's message cut to
\* max_emsg_bytes - 1 characters.
C4_Original ==
    fault = "codec" =>
        /\ result = "FALSE"
        /\ emsg.text = Prefix(escape.error_message, arg.max_emsg_bytes - 1)

\* C4, amended: after the codec's error callback has fired the operation has
\* returned FALSE through its recovery point, and emsg holds the codec's
\* message cut to max_emsg_bytes - 1 characters, except that
\* t42_itulab_to_jpeg and t42_itulab_to_srgb put the whole of
\* "Unspecified libjpeg error." in its place when the cut message is empty.
C4_CodecFailureRecovered ==
    fault = "codec" =>
        /\ result = "FALSE"
        /\ emsg.text =
             IF /\ op \in {"t42_itulab_to_jpeg", "t42_itulab_to_srgb"}
                /\ Prefix(escape.error_message, arg.max_emsg_bytes - 1) = ""
             THEN "Unspecified libjpeg error."
             ELSE Prefix(escape.error_message, arg.max_emsg_bytes - 1)

\* A codec message cut short, and one cut to nothing and replaced.
C4_Witness ==
    /\ fault = "codec"
    /\ result = "FALSE"
    /\ escape.error_message = "Bogus marker length"
    /\ emsg.text \in {"Bogus m", "Unspecified libjpeg error."}
    /\ Kind \in {"write_scanlines", "finish_decompress"}

\* C5: no more than max_emsg_bytes bytes of emsg are ever written.
C5_EmsgWithinBounds == emsg.extent <= arg.max_emsg_bytes

\* C6: an operation that has returned FALSE has left a message in emsg.
C6_FalseHasMessage == result = "FALSE" => emsg.text # ""

\* C7: when an operation has returned, every scanline buffer it allocated
\* has been freed, once.
C7_BuffersFreedOnce ==
    result \in {"TRUE", "FALSE"} =>
        /\ scan_line_in.state \in {"unset", "freed"}
        /\ scan_line_out.state \in {"unset", "freed"}

\* C8 as stated: after a FALSE return none of the caller's outputs (*dst,
\* *dstlen, the dst buffer, *width, *height) has been written.
C8_Original == result = "FALSE" => out = NoOut

\* C8, amended: after a FALSE return *dst and *dstlen hold their values of
\* before the call (t42_itulab_to_srgb may by then have written *width,
\* *height and scanlines of the dst buffer).
C8_FailureLeavesDstAndLen ==
    result = "FALSE" =>
        /\ out.written \cap {"dst", "dstlen"} = {}
        /\ out.dstlen = NoOut.dstlen

\* t42_itulab_to_srgb failing after it has written a scanline into dst.
C8_Witness ==
    /\ result = "FALSE"
    /\ op = "t42_itulab_to_srgb"
    /\ out.written = {"width", "height"}
    /\ out.buf # <<>>

\* C9: with two operations running in two threads, no fatal codec error
\* reaches the codec's default, process-ending error_exit.
C9_ErrorsReachOwnRecovery == \A t \in Threads : thr[t].outcome # "exit"

\* A G3FAX gamut record (sub-type 1).
IsGamutSegment(seg) == IsFaxSegment(seg) /\ seg.data[6] = 1

\* A G3FAX illuminant record (sub-type 2) whose tag is in the catalogue.
IsCatalogueIlluminantSegment(seg) ==
    /\ IsFaxSegment(seg)
    /\ seg.data[6] = 2
    /\ LET code == Bytes(seg, 6, 4)
       IN /\ ~(code[1] = 67 /\ code[2] = 84)
          /\ \E i \in 1..Len(illuminants) :
                illuminants[i].name # "" /\ TagMatches(code, i)

\* C10: when isITUfax returns, the gamut is the one the last sub-type 1
\* segment of the chain sets (the caller's if there is none) and the white
\* point the one the last sub-type 2 segment with a catalogue tag sets (the
\* caller's if there is none), whatever the segments before them.
C10_LastWriterWins ==
    scan.returned =>
       LET g == LastWhere(scan.chain, IsGamutSegment)
           w == LastWhere(scan.chain, IsCatalogueIlluminantSegment)
       IN /\ GamutOf(scan.acc.s) =
               IF g = 0 THEN GamutOf(scan.s0)
               ELSE GamutOf(set_gamut_from_code(ZeroParams, Bytes(scan.chain[g], 6, 12)))
          /\ WhiteOf(scan.acc.s) =
               IF w = 0 THEN WhiteOf(scan.s0)
               ELSE WhiteOf(set_illuminant_from_code(ZeroParams, Bytes(scan.chain[w], 6, 4)))

\* Two gamut records that differ, scanned to the end.
C10_Witness ==
    /\ scan.returned
    /\ scan.chain = <<SegGamutA, SegGamutB>>
    /\ GamutOf(scan.acc.s) = GamutOf(set_gamut_from_code(ZeroParams, Bytes(SegGamutB, 6, 12)))
    /\ GamutOf(scan.acc.s) # GamutOf(set_gamut_from_code(ZeroParams, Bytes(SegGamutA, 6, 12)))

\* A G3FAX record whose sub-type is none of 0, 1, 2 (3, the colour palette
\* record, among them).
IsIgnoredFaxSegment(seg) == IsFaxSegment(seg) /\ seg.data[6] \notin {0, 1, 2}

\* The pass of the scan loop over the segment at ptr has just run.
ScannedOne == scan'.ptr = scan.ptr + 1

\* C11: the pass of the scan loop over a G3FAX segment of sub-type 3, or of
\* any sub-type other than 0, 1 and 2, leaves every field of the
\* lab_params_t and the recognition flag as they were; and a chain that
\* holds such a segment is still recognised when another of its segments
\* has sub-type 0, 1 or 2.
C11_IgnoredSubtypes ==
    /\ [][ (ScannedOne /\ IsIgnoredFaxSegment(scan.chain[scan.ptr]))
              => scan'.acc = scan.acc ]_vars
    /\ [](scan.returned =>
            ((\E i \in 1..Len(scan.chain) :
                 IsFaxSegment(scan.chain[i]) /\ scan.chain[i].data[6] \in {0, 1, 2})
             => scan.acc.ok))

\* A palette record scanned after a gamut record: recognised, and the gamut
\* is the record's; and a chain of ignored records only, not recognised.
C11_Witness ==
    /\ scan.returned
    /\ \/ /\ scan.chain = <<SegGamutB, SegPalette>>
          /\ scan.acc.ok
          /\ scan.s0 = DefaultParams
          /\ scan.acc.s # scan.s0
       \/ /\ scan.chain = <<SegSubtype9, SegPalette>>
          /\ ~scan.acc.ok
          /\ scan.acc.s = scan.s0

\* The last call was of setter fn.
LastCall(fn) == par.call.fn = fn

\* set_lab_gamut was called last, with max # min on every channel.
GamutCallInContract ==
    /\ LastCall("set_lab_gamut")
    /\ LET g == par.call.args.bounds
       IN g[1] # g[2] /\ g[3] # g[4] /\ g[5] # g[6]

\* C12 as stated: after set_lab_gamut with max # min on every channel each
\* offset is -255*min/(max - min), each range (max - min)/255, and
\* ab_are_signed is the argument.
C12_Original ==
    GamutCallInContract =>
       LET g == par.call.args.bounds
       IN /\ par.s.offset_L = Rat(-255 * g[1], g[2] - g[1])
          /\ par.s.offset_a = Rat(-255 * g[3], g[4] - g[3])
          /\ par.s.offset_b = Rat(-255 * g[5], g[6] - g[5])
          /\ par.s.range_L = Rat(g[2] - g[1], 255)
          /\ par.s.range_a = Rat(g[4] - g[3], 255)
          /\ par.s.range_b = Rat(g[6] - g[5], 255)
          /\ par.s.ab_are_signed = par.call.args.ab_are_signed

\* C12, amended: after set_lab_gamut with max # min on every channel each
\* offset is -256*min/(max - min), each range (max - min)/255, and
\* ab_are_signed is the argument; the white point is as it was.
C12_GamutFromBounds ==
    GamutCallInContract =>
       LET g == par.call.args.bounds
       IN /\ par.s.offset_L.n * (g[2] - g[1]) = -256 * g[1] * par.s.offset_L.d
          /\ par.s.offset_a.n * (g[4] - g[3]) = -256 * g[3] * par.s.offset_a.d
          /\ par.s.offset_b.n * (g[6] - g[5]) = -256 * g[5] * par.s.offset_b.d
          /\ par.s.range_L.n * 255 = (g[2] - g[1]) * par.s.range_L.d
          /\ par.s.range_a.n * 255 = (g[4] - g[3]) * par.s.range_a.d
          /\ par.s.range_b.n * 255 = (g[6] - g[5]) * par.s.range_b.d
          /\ par.s.offset_L.d > 0 /\ par.s.offset_a.d > 0 /\ par.s.offset_b.d > 0
          /\ par.s.range_L.d > 0 /\ par.s.range_a.d > 0 /\ par.s.range_b.d > 0
          /\ par.s.ab_are_signed = par.call.args.ab_are_signed
          /\ WhiteOf(par.s) = WhiteOf(par.before)

\* The default gamut set with signed codes on unsigned parameters: the
\* offsets are 0, 128 and 96.
C12_Witness ==
    /\ GamutCallInContract
    /\ par.call.args.bounds = <<0, 100, -85, 85, -75, 125>>
    /\ par.call.args.ab_are_signed
    /\ ~par.before.ab_are_signed
    /\ par.s.offset_a = RInt(128)
    /\ par.s.offset_b = RInt(96)

\* The 16 bit value of field i (0..5) of a 12 byte gamut code, high byte first.
CodeField(code, i) == 256 * code[2*i + 1] + code[2*i + 2]

\* C13: set_gamut_from_code does what set_lab_gamut2 does with the six big
\* endian 16 bit values of the code, in the order L_P, L_Q, a_P, a_Q, b_P,
\* b_Q: each range is Q/255, each offset P, ab_are_signed false whatever it
\* was, the white point as it was.
C13_GamutFromCode ==
    LastCall("set_gamut_from_code") =>
       LET code == par.call.args
           v(i) == CodeField(code, i)
       IN /\ par.s = set_lab_gamut2(par.before, v(0), v(1), v(2), v(3), v(4), v(5))
          /\ par.s.range_L.n * 255 = v(1) * par.s.range_L.d
          /\ par.s.range_a.n * 255 = v(3) * par.s.range_a.d
          /\ par.s.range_b.n * 255 = v(5) * par.s.range_b.d
          /\ par.s.offset_L = [n |-> v(0), d |-> 1]
          /\ par.s.offset_a = [n |-> v(2), d |-> 1]
          /\ par.s.offset_b = [n |-> v(4), d |-> 1]
          /\ par.s.ab_are_signed = FALSE
          /\ WhiteOf(par.s) = WhiteOf(par.before)

\* A code with fields above 255, read into parameters that had signed codes.
C13_Witness ==
    /\ LastCall("set_gamut_from_code")
    /\ par.call.args = Bytes(SegGamutB, 6, 12)
    /\ par.before.ab_are_signed
    /\ par.s.range_L = [n |-> 256, d |-> 255]
    /\ par.s.offset_L = [n |-> 16, d |-> 1]

\* C14: set_lab_illuminant stores its arguments divided by 100 when new_yn
\* is above 10 and as they are otherwise, whatever new_xn and new_zn are,
\* and leaves the gamut fields as they were.
C14_IlluminantScaling ==
    LastCall("set_lab_illuminant") =>
       LET w == par.call.args
           percent == w[2].n > 10 * w[2].d
           stored(k) == IF percent THEN Rat(w[k].n, 100 * w[k].d) ELSE w[k]
       IN /\ WhiteOf(par.s) = <<stored(1), stored(2), stored(3)>>
          /\ GamutOf(par.s) = GamutOf(par.before)

\* new_yn above 10 with new_xn below it, on parameters with a gamut set.
C14_Witness ==
    /\ LastCall("set_lab_illuminant")
    /\ par.call.args = <<RInt(5), RInt(11), RInt(200)>>
    /\ WhiteOf(par.s) = <<Rat(5, 100), Rat(11, 100), RInt(2)>>
    /\ par.before.range_L # RInt(0)

\* The entries of the table that have a tag: a tag other than four zero bytes.
TaggedEntries ==
    {i \in 1..Len(illuminants) : SubSeq(illuminants[i].tag, 1, 4) # <<0, 0, 0, 0>>}

\* C15: set_illuminant_from_code called with the 4 byte tag of an entry of
\* the table sets the white point to the entry's values over 100, whatever
\* it was; the D65 tag gives 0.95047, 1.00000, 1.08883.
C15_TagSetsWhitePoint ==
    LastCall("set_illuminant_from_code") =>
       /\ \A i \in TaggedEntries :
             par.call.args = SubSeq(illuminants[i].tag, 1, 4) =>
                WhiteOf(par.s) = << Rat(illuminants[i].xn, 100000),
                                    Rat(illuminants[i].yn, 100000),
                                    Rat(illuminants[i].zn, 100000) >>
       /\ par.call.args = <<0, 68, 54, 53>> =>
             WhiteOf(par.s) = << Rat(95047, 100000), RInt(1), Rat(108883, 100000) >>

\* The D65 tag given to parameters that held the D50 white point.
C15_Witness ==
    /\ LastCall("set_illuminant_from_code")
    /\ par.call.args = <<0, 68, 54, 53>>
    /\ WhiteOf(par.before) = WhiteOf(DefaultParams)
    /\ WhiteOf(par.s) # WhiteOf(par.before)

\* The code is the tag of a named entry of the table.
InCatalogue(code) ==
    \E i \in 1..Len(illuminants) :
       illuminants[i].name # "" /\ SubSeq(illuminants[i].tag, 1, 4) = code

\* C16: set_illuminant_from_code leaves every field as it was when the code
\* begins 'C', 'T', whatever the 16 bits after it, and when the code is the
\* tag of no entry of the table.
C16_UnknownCodeIgnored ==
    LastCall("set_illuminant_from_code") =>
       LET code == par.call.args
       IN ((code[1] = 67 /\ code[2] = 84) \/ ~InCatalogue(code)) => par.s = par.before

\* A code that is no tag, and a colour temperature, given to parameters
\* with a white point set.
C16_Witness ==
    /\ LastCall("set_illuminant_from_code")
    /\ par.call.args \in { <<0, 68, 57, 57>>, <<67, 84, 255, 255>> }
    /\ par.s = par.before
    /\ WhiteOf(par.before) # WhiteOf(ZeroParams)

\* The positions of the events of a kind in what the compressor was given.
Events(ev) == {i \in 1..Len(enc) : enc[i].ev = ev}

\* C17: every marker given to the compressor is the same APP1 segment of 10
\* bytes: "G3FAX", sub-type 0, the two bytes of the version field, and 200
\* as 0x00, 0xC8; none is a gamut (sub-type 1) or illuminant (sub-type 2)
\* record.
C17_MarkerSegment ==
    \A i \in Events("marker") :
       LET m == enc[i].data
       IN /\ m.marker = 225
          /\ Len(m.data) = 10
          /\ m.data = <<71, 51, 70, 65, 88, 0, 7, 202, 0, 200>>
          /\ m.data[6] \notin {1, 2}
          /\ pack_16(m.data[9], m.data[10]) = 200

\* t42_srgb_to_itulab under parameters with a gamut and a white point set,
\* returned after it wrote its marker and a scanline.
C17_Witness ==
    /\ op = "t42_srgb_to_itulab"
    /\ arg.s0 = DefaultParams
    /\ result = "TRUE"
    /\ Events("marker") # {}
    /\ Events("line") # {}

\* The operations that produce ITULab JPEG.
ItulabProducers == {"t42_jpeg_to_itulab", "t42_srgb_to_itulab", "t42_itulab_to_itulab"}

\* C18: in t42_jpeg_to_itulab, t42_srgb_to_itulab and t42_itulab_to_itulab
\* the marker is given to the compressor right after compression is started
\* and before any scanline, never twice, and a run that returns TRUE has
\* given it once.
C18_MarkerOnceBeforeScanlines ==
    op \in ItulabProducers =>
       /\ Cardinality(Events("marker")) <= 1
       /\ \A i \in Events("marker") : i = 2 /\ enc[1].ev = "start"
       /\ \A i \in Events("line") : \E j \in Events("marker") : j < i
       /\ result = "TRUE" => Cardinality(Events("marker")) = 1

\* t42_itulab_to_itulab returned TRUE after two scanlines.
C18_Witness ==
    /\ op = "t42_itulab_to_itulab"
    /\ result = "TRUE"
    /\ Cardinality(Events("line")) = 2
    /\ enc[2].ev = "marker"

\* c is floor(v/range + offset) clamped to 0..255, for a finite value and a
\* non-zero range.
IsClampedFloor(c, v, range, offset) ==
    LET q == RAdd(RDiv(v, range), offset)
    IN /\ c \in 0..255
       /\ q.n < 0 => c = 0
       /\ q.n >= 256 * q.d => c = 255
       /\ (q.n >= 0 /\ q.n < 256 * q.d) => (c * q.d <= q.n /\ q.n < (c + 1) * q.d)

Quantised == px.done # "none"

\* C19 as stated: each of the three bytes of lab_to_itu is
\* floor(value/range + offset) clamped to 0..255, with ab_are_signed false
\* or true.
C19_Original ==
    Quantised =>
       /\ IsClampedFloor(px.itu[1], px.lab.L, px.s.range_L, px.s.offset_L)
       /\ IsClampedFloor(px.itu[2], px.lab.a, px.s.range_a, px.s.offset_a)
       /\ IsClampedFloor(px.itu[3], px.lab.b, px.s.range_b, px.s.offset_b)

\* C19, amended: the L byte of lab_to_itu is floor(L/range + offset) clamped
\* to 0..255; the a* and b* bytes are that clamped value when ab_are_signed
\* is false and the clamped value less 128, modulo 256, when it is true.
\* The clamp comes before the shift: a value outside the gamut gives the
\* byte of 0 or of 255, never that of a wrapped-around quotient.
C19_QuantiserClamps ==
    Quantised =>
       LET bias == IF px.s.ab_are_signed THEN 128 ELSE 0
       IN /\ IsClampedFloor(px.itu[1], px.lab.L, px.s.range_L, px.s.offset_L)
          /\ IsClampedFloor((px.itu[2] + bias) % 256, px.lab.a, px.s.range_a, px.s.offset_a)
          /\ IsClampedFloor((px.itu[3] + bias) % 256, px.lab.b, px.s.range_b, px.s.offset_b)
          /\ px.itu \in (0..255) \X (0..255) \X (0..255)

\* Signed codes and a Lab value far outside the gamut on every channel: L
\* and b* clamp to 0, a* to 255, sent as 128 and 127.
C19_Witness ==
    /\ Quantised
    /\ px.s = SignedParams
    /\ px.lab = [L |-> RInt(-30000), a |-> RInt(30000), b |-> RInt(-30000)]
    /\ px.itu = <<0, 127, 128>>

\* The pixel has been to ITULab and back.
RoundTripDone == rgb.done = "lab_to_srgb"

WithinTwo(p, q) == \A k \in 1..3 : Abs(p[k] - q[k]) <= 2

Dequantised == px.done = "itu_to_lab"

\* The parameters with the a* and b* codes sent as they are.
Unsigned(s0) == [s0 EXCEPT !.ab_are_signed = FALSE]

\* The clamped codes of the pixel, before any shift.
ClampedCodes ==
    << QuantiseChannel(px.lab.L, px.s.range_L, px.s.offset_L),
       QuantiseChannel(px.lab.a, px.s.range_a, px.s.offset_a),
       QuantiseChannel(px.lab.b, px.s.range_b, px.s.offset_b) >>

\* C21: with ab_are_signed true, the a* and b* bytes lab_to_itu writes are
\* the clamped codes less 128 modulo 256, itu_to_lab gets the clamped codes
\* back from them, and the a* and b* values it gives are those it gives with
\* ab_are_signed false; the same holds of every code 0..255.
C21_BiasSelfInverse ==
    (Dequantised /\ px.s.ab_are_signed) =>
       LET c == ClampedCodes
           plain == itu_to_lab(Unsigned(px.s), c)
       IN /\ px.itu[2] = (c[2] - 128) % 256
          /\ px.itu[3] = (c[3] - 128) % 256
          /\ (px.itu[2] + 128) % 256 = c[2]
          /\ (px.itu[3] + 128) % 256 = c[3]
          /\ px.back = plain
          /\ \A k \in 0..255 :
                itu_to_lab(px.s, << c[1], (k - 128) % 256, (k - 128) % 256 >>)
                   = itu_to_lab(Unsigned(px.s), << c[1], k, k >>)

\* Signed codes, one sent in the upper half (the addition of 128 wraps) and
\* one in the lower half.
C21_Witness ==
    /\ Dequantised
    /\ px.s.ab_are_signed
    /\ px.itu[2] >= 128
    /\ px.itu[3] < 128
    /\ ClampedCodes[2] \notin {0, 255}

\* The segments the scan has been over.
Scanned == {scan.chain[i] : i \in 1..(scan.ptr - 1)}

\* C22 as stated: isITUfax reads the data of a segment only at indices below
\* its data_length, also when a G3FAX record of sub-type 0, 1, 2 or 3 is
\* shorter than its layout.
C22_ReadsWithinData ==
    \A seg \in Scanned : \A i \in DataReads(seg) : i < data_length(seg)

\* C23 as stated: set_illuminant_from_code changes the parameters only when
\* the code is the tag of one of the eight tagged entries; no code selects an
\* entry whose tag is empty, and the code of four zero bytes leaves the
\* white point as it was.
C23_EmptyTagNeverSelected ==
    LastCall("set_illuminant_from_code") =>
       LET code == par.call.args
       IN /\ Cardinality(TaggedEntries) = 8
          /\ par.s # par.before =>
                \E i \in TaggedEntries : code = SubSeq(illuminants[i].tag, 1, 4)
          /\ code = <<0, 0, 0, 0>> => WhiteOf(par.s) = WhiteOf(par.before)

\* The operations that read their scanlines from src, srclen bytes of it.
RawSourceOps == {"t42_srgb_to_itulab", "t42_itulab_to_itulab"}

\* Inside the body of the scanline loop, scan_line_in = src + pos about to
\* be read for a whole line.
AtSourceLine == Running /\ Kind \in {"transform", "write_scanlines"}

\* C24 as stated, in t42_srgb_to_itulab and t42_itulab_to_itulab: every
\* scanline read from src ends at or before srclen, and when the operation
\* has returned TRUE the encoder was handed as many scanlines as the
\* caller's height.
C24_LinesWithinSource ==
    op \in RawSourceOps =>
       /\ AtSourceLine => pos + Width * NumComponents <= arg.src.srclen
       /\ result = "TRUE" => Cardinality(Events("line")) = arg.src.height

\* The operations that decode an ITULab image.
ImageDecoders == {"t42_itulab_to_jpeg", "t42_itulab_to_srgb"}

\* The scanlines lab_to_srgb has produced so far: in scan_line_out or given
\* to the compressor (t42_itulab_to_jpeg), in dst (t42_itulab_to_srgb).
TransformedLines ==
    {enc[i].data : i \in Events("line")}
       \cup {out.buf[i].data : i \in 1..Len(out.buf)}
       \cup (IF "fn" \in DOMAIN scan_line_out.data THEN {scan_line_out.data} ELSE {})

\* The parameters once the whole marker list has been looked at.
Recognised == isITUfax(arg.s0, arg.src.markers).s

\* C25: in t42_itulab_to_jpeg and t42_itulab_to_srgb every scanline is
\* transformed under the parameters the marker scan left, every record of
\* the list applied, and from the step after the scan to the return the
\* parameters are not written: all scanlines of an image are decoded under
\* the same parameters.
C25_SameParametersPerImage ==
    /\ [](op \in ImageDecoders =>
            /\ \A t \in TransformedLines : t.fn = "lab_to_srgb" /\ t.s = Recognised
            /\ TransformedLines # {} => s = Recognised)
    /\ [][(op \in ImageDecoders /\ pc > PosOf(op, "isITUfax")) => s' = s]_vars

\* t42_itulab_to_srgb returned TRUE with two scanlines in dst, decoded under
\* a gamut and a white point taken from the markers.
C25_Witness ==
    /\ op = "t42_itulab_to_srgb"
    /\ result = "TRUE"
    /\ Len(out.buf) = 2
    /\ out.buf[1].data.s = out.buf[2].data.s
    /\ Recognised # arg.s0
    /\ WhiteOf(Recognised) # WhiteOf(arg.s0)

=============================================================================
